---- MODULE Spec2Model ----
(***************************************************************************)
(* Model of the intent pipeline of the Telegram swap bot:                  *)
(*   - SwapService.executeSwap with its escrow top-up (depositToEscrow),   *)
(*     intent signing (PrivyService.signMessage) and relayer submission;   *)
(*   - OrderService.waitForOrderCompletion, the settlement polling loop.   *)
(* Every action is the continuation of one awaited call: it consumes the  *)
(* call's outcome and runs the synchronous code up to the next await.     *)
(***************************************************************************)
EXTENDS Integers, Sequences, FiniteSets, TLC

(***************************************************************************)
(* Bounds of the model.                                                    *)
(***************************************************************************)
MaxAmount == 4
MaxTimeout == 4
MaxPollInterval == 2
MaxLatency == 1
MaxFeedLen == 2
MaxListed == 6
MaxCommands == 1
MaxHalfDays == 3
MaxQuotes == 2
MaxConfirms == 2
MaxRuns == 2
MaxMonitorCalls == 3
MaxPrivyCalls == 2
MaxCancelPending == 2
MaxCancelActivity == 10

(* Token decimals in use (MOVE/WETH.e: 8, USDC.e/USDT.e: 6). *)
TokenDecimals == {6, 8}

(* Messages carried by errors thrown by the collaborators; "" is an error *)
(* whose message is empty.                                                 *)
ErrorMessages == {"", "rpc error"}

(***************************************************************************)
(* JavaScript numbers: IEEE-754 binary64, round to nearest, ties to even.  *)
(* A positive float is [m, e]: m the significant bits (most significant    *)
(* first, at most MantissaBits of them), value = m * 2^e.                  *)
(***************************************************************************)
MantissaBits == 53

RECURSIVE Pow10(_)
Pow10(d) == IF d = 0 THEN 1 ELSE 10 * Pow10(d - 1)

(* number of binary digits of n, 0 <= n < 2^31 *)
BitLength(n) ==
    IF n = 0 THEN 0
    ELSE CHOOSE k \in 1..31 : n \div (2 ^ (k - 1)) >= 1 /\ (k = 31 \/ n \div (2 ^ k) = 0)

ToBits(n) == [i \in 1..BitLength(n) |-> (n \div (2 ^ (BitLength(n) - i))) % 2]

RECURSIVE FromBits(_, _)
FromBits(bits, n) == IF n = 0 THEN 0 ELSE 2 * FromBits(bits, n - 1) + bits[n]

(* the bits of a sequence of base-16 digits *)
HexBits(h) == [i \in 1..(4 * Len(h)) |-> (h[((i - 1) \div 4) + 1] \div (2 ^ (3 - ((i - 1) % 4)))) % 2]

(* bits + 1: the last 0 becomes 1 and the 1s after it become 0 *)
IncBits(bits) ==
    LET zeros == {i \in 1..Len(bits) : bits[i] = 0}
    IN  IF zeros = {}
        THEN <<1>> \o [i \in 1..Len(bits) |-> 0]
        ELSE LET j == CHOOSE i \in zeros : \A z \in zeros : z <= i
             IN  [i \in 1..Len(bits) |-> IF i < j THEN bits[i] ELSE IF i = j THEN 1 ELSE 0]

RoundNearestEven(bits, e, guard, sticky) ==
    IF guard = 1 /\ (sticky \/ bits[Len(bits)] = 1)
    THEN LET up == IncBits(bits)
         IN  IF Len(up) > Len(bits)
             THEN [m |-> SubSeq(up, 1, Len(bits)), e |-> e + 1]
             ELSE [m |-> up, e |-> e]
    ELSE [m |-> bits, e |-> e]

(* a significand of more than MantissaBits bits, lowest bit worth 2^e,     *)
(* rounded to MantissaBits bits; inexact: nonzero digits lie beyond bits   *)
Normalize(bits, e, inexact) ==
    IF Len(bits) <= MantissaBits /\ ~inexact THEN [m |-> bits, e |-> e]
    ELSE RoundNearestEven(SubSeq(bits, 1, MantissaBits),
                          e + (Len(bits) - MantissaBits),
                          bits[MantissaBits + 1],
                          inexact \/ \E i \in (MantissaBits + 2)..Len(bits) : bits[i] = 1)

(* long division in base 16: the remainder after i quotient digits *)
RECURSIVE RemAfter(_, _, _)
RemAfter(r, D, i) == IF i = 0 THEN r ELSE (16 * RemAfter(r, D, i - 1)) % D

QuotientDigits(r, D, n) == [i \in 1..n |-> (16 * RemAfter(r, D, i - 1)) \div D]

FractionDigits == (MantissaBits + 3) \div 4

(* x / D for integers x >= 0 and 0 < D < 2^27 *)
FDiv(x, D) ==
    IF x = 0 THEN [m |-> <<>>, e |-> 0]
    ELSE LET k == IF x >= D THEN 0
                  ELSE CHOOSE j \in 1..27 : x * (2 ^ j) >= D /\ x * (2 ^ (j - 1)) < D
             y == x * (2 ^ k)
             whole == ToBits(y \div D)
             all == whole \o HexBits(QuotientDigits(y % D, D, FractionDigits))
         IN  Normalize(all, -(4 * FractionDigits) - k,
                       RemAfter(y % D, D, FractionDigits) # 0)

(* bit p (0 the lowest) of a significand *)
BitR(m, p) == IF p < Len(m) THEN m[Len(m) - p] ELSE 0

(* base-16 digit j (1 the lowest) of a significand *)
LimbOf(m, j) ==
    BitR(m, 4 * j - 4) + 2 * BitR(m, 4 * j - 3) + 4 * BitR(m, 4 * j - 2) + 8 * BitR(m, 4 * j - 1)

(* schoolbook multiplication by D in base 16: the carry out of digit j *)
RECURSIVE MulCarry(_, _, _)
MulCarry(m, D, j) ==
    IF j = 0 THEN 0 ELSE (LimbOf(m, j) * D + MulCarry(m, D, j - 1)) \div 16

StripZeros(bits) ==
    LET ones == {i \in 1..Len(bits) : bits[i] = 1}
    IN  IF ones = {} THEN <<>>
        ELSE SubSeq(bits, CHOOSE i \in ones : \A o \in ones : i <= o, Len(bits))

(* f * D for a float f >= 0 and an integer 0 < D < 2^27 *)
FMul(f, D) ==
    LET L == (Len(f.m) + 3) \div 4
        digits == [i \in 1..L |->
                     (LimbOf(f.m, L + 1 - i) * D + MulCarry(f.m, D, L - i)) % 16]
        p == StripZeros(ToBits(MulCarry(f.m, D, L)) \o HexBits(digits))
    IN  Normalize(p, f.e, FALSE)

(* Math.floor of a float f >= 0 below 2^31 *)
FFloor(f) ==
    IF f.e >= 0 THEN FromBits(f.m, Len(f.m)) * (2 ^ f.e)
    ELSE IF -f.e >= Len(f.m) THEN 0
    ELSE FromBits(f.m, Len(f.m) + f.e)

(***************************************************************************)
(* SwapService                                                             *)
(***************************************************************************)
VARIABLES
    pc,               \* the call executeSwap is awaiting, or "done"
    sellAmount,       \* quote.sellAmount, the amount /swap parsed (a float)
    sellAmountAtomic, \* required sell amount, smallest units
    decimals,         \* quote.sellToken.decimals
    currentEscrowBal, \* the local of that name
    balanceView,      \* outcome of the escrow balance view: "pending", "ok", "failed"
    deposits,         \* raw amounts of the deposit transactions built, in order
    depositOutcome,   \* "none", "confirmed", "reverted", "threw"
    calls,            \* number of calls issued, per collaborator operation
    oracleError,      \* message of the error signMessage threw, or NoError
    result,           \* value executeSwap returned, or NoResult
    nonceVal,         \* outcome of the get_nonce view: NoView, Viewed(n), ViewedNothing or ViewFailed
    intent,           \* the intent executeSwap created, or NoIntent
    wire,             \* what executeSwap hashed, had signed, POSTed and returned as order ID
    keysSent,         \* public keys handed on: to the chain ("submit") or the relayer ("post")
    relayerError,     \* the error string of the relayer's error payload, or NoError
    \* OrderService.waitForOrderCompletion
    tpc,              \* "start", the call awaited ("activity", "orders", "sleep") or "done"
    now,              \* the clock, Date.now()
    startTime,        \* the local of that name
    timeoutMs,        \* argument
    pollIntervalMs,   \* argument
    polls,            \* GET /activity requests issued
    sleeps,           \* sleeps started
    pollErrors,       \* polls that ended in the catch block
    iterStart,        \* Date.now() - startTime read by the latest loop test that passed
    iterGets,         \* relayer requests issued in the current iteration
    iterNet,          \* time the relayer requests of the current iteration took
    netTime,          \* time all relayer requests took
    lastFeed,         \* activities, the feed of this iteration (<<>> outside its scope)
    lastFeedAt,       \* Date.now() when lastFeed was scanned
    stillPending,     \* the local of that name once GET /orders answered, else "unread"
    tresult,          \* value waitForOrderCompletion returned, or NoOutcome
    \* serializeIntent (src/index.ts)
    epc,              \* "input", "encoded" or "varied"
    encIn,            \* arguments of a serializeIntent call
    encOut,           \* what that call produced, or NoEncoding
    encField,         \* the argument a second call changes, or "none"
    encAlt,           \* arguments of the second call
    encAltOut,        \* what the second call produced, or NoEncoding
    \* OrderService.getOrders
    gpc,              \* the request awaited ("orders", "activity") or "done"
    relayerOrders,    \* the relayer's pending orders
    relayerActivity,  \* the relayer's activity feed
    pendingOrders,    \* the local of that name
    requestFailed,    \* whether the catch block ran
    gresult,          \* value getOrders returned, or NoOrders
    \* BotCommands.handleConfirm
    cpc,              \* what /confirm or its background task awaits, or "done"
    swapResult,       \* the local result
    rejection,        \* the error string of the relayer's error payload, if executeSwap met one
    tracked,          \* arguments of the background task's waitForOrderCompletion call
    pollResult,       \* the local of the background task
    notifications,    \* settlement notifications handed to sendMessage, in order
    handler,          \* whether handleConfirm itself is "running" or has "returned"
    others,           \* commands handled after handleConfirm returned
    delivery,         \* what became of the sendMessage call: "none", "delivered", "failed"
    \* SwapService.withdrawFromEscrow / cancelOrders
    okind,            \* which of the two was called
    opc,              \* the call awaited, "done", or "raised" if an exception left the function
    orawAmount,       \* rawAmount of the withdrawal built
    okeySent,         \* public key bytes given to the authenticator
    ofailedAt,        \* the call whose failure reached the catch block, or "nowhere"
    oresult,          \* value returned, or NoResult
    \* FaucetService.claimTokens, the calls for one Telegram ID
    fpc,              \* per call: "uncalled", the call awaited, "granted", "denied" or "failed"
    claimHistory,     \* claimHistory.get(telegramId), or NoClaims
    fclock,           \* Date.now()
    grants,           \* Date.now() of every successful claim, in order
    \* two executeSwap calls of one maker for one sell token
    rpc,              \* per call: the call awaited, or "done"
    rneed,            \* per call: sellAmountAtomic
    rbal,             \* per call: currentEscrowBal
    rdep,             \* per call: raw amount of the deposit it made, or 0
    rnonce,           \* per call: the nonce of its intent, or NoNonce
    rres,             \* per call: "none", "success" or "failure"
    chainEscrow,      \* the maker's escrow balance on chain
    chainNonce,       \* the maker's nonce on chain
    posted,           \* the intents the relayer has received: call and nonce
    \* BotCommands: pendingQuotes and the /confirm handlers in flight
    pendingQuotes,    \* the map of that name: per user a quote, or NoQuote
    confirms,         \* handleConfirm calls: user, the quote read, its executeSwap call, the call awaited or "done"
    executions,       \* quotes handed to executeSwap, in order, and whether the order went out
    quoted,           \* number of quotes /swap stored so far
    \* ActivityMonitor
    interval,         \* the field of that name: a timer id, or NoTimer (null)
    timers,           \* the timers setInterval created that clearInterval has not cleared
    started,          \* number of setInterval calls so far
    subscribedChatIds,\* the Set of that name as its entry list: chat ids in insertion order,
                      \* a deleted entry left empty until the iterators have passed it
    processedHashes,  \* the Set of that name
    runs,             \* checkActivity runs: the call awaited or "done", newSwaps, the swap
                      \* and the entry of subscribedChatIds its loops are at
    delivered,        \* per chat and hash: number of sendMessage calls that succeeded
    lastCall,         \* the latest of subscribe, start and stop called, or "none"
    monitorCalls,     \* number of subscribe, unsubscribe, start and stop calls so far
    \* PrivyService.getOrCreateUser and the Privy application it talks to
    privyUsers,       \* Privy's users, by user id: Telegram ID, server_wallet_id in the custom
                      \* metadata (or NoWallet), linked server wallet (or NoWallet)
    walletCount,      \* number of wallets Privy has created; they are numbered from 1
    pcalls,           \* getOrCreateUser calls: caller, arguments, locals, the call awaited,
                      \* "returned" or "threw", and the wallet returned
    creations,        \* users().create calls issued: Telegram ID and what the lookup had said
    \* BotCommands.handleCancel
    kpc,              \* position of the handler
    cancelResult      \* what swapService.cancelOrders returned, once called

swapVars == <<pc, sellAmount, nonceVal, sellAmountAtomic, decimals, currentEscrowBal, balanceView,
              deposits, depositOutcome, calls, oracleError, result,
              intent, wire, keysSent, relayerError>>

trackVars == <<tpc, now, startTime, timeoutMs, pollIntervalMs, polls, sleeps, pollErrors,
               iterStart, iterGets, iterNet, netTime, lastFeed, lastFeedAt, stillPending,
               tresult>>

encVars == <<epc, encIn, encOut, encField, encAlt, encAltOut>>

ordVars == <<gpc, relayerOrders, relayerActivity, pendingOrders, requestFailed, gresult>>

confVars == <<cpc, swapResult, rejection, tracked, pollResult, notifications,
              handler, others, delivery>>

opVars == <<okind, opc, orawAmount, okeySent, ofailedAt, oresult>>

faucetVars == <<fpc, claimHistory, fclock, grants>>

raceVars == <<rpc, rneed, rbal, rdep, rnonce, rres, chainEscrow, chainNonce, posted>>

quoteVars == <<pendingQuotes, confirms, executions, quoted>>

monVars == <<interval, timers, started, subscribedChatIds, processedHashes, runs, delivered,
             lastCall, monitorCalls>>

privyVars == <<privyUsers, walletCount, pcalls, creations>>

cancelVars == <<kpc, cancelResult>>

lateVars == <<quoteVars, monVars, privyVars, cancelVars>>

earlyVars == <<swapVars, trackVars, encVars, ordVars, confVars, opVars, faucetVars, raceVars>>

concVars == <<faucetVars, raceVars, lateVars>>

auxVars == <<encVars, ordVars, confVars, opVars, concVars>>

vars == <<swapVars, trackVars, auxVars>>

NoResult == [returned |-> FALSE, success |-> FALSE, message |-> <<>>]
NoError == "(no error)"

CallNames == {"build", "signTransaction", "submit", "waitForTransaction",
              "get_nonce", "signMessage", "post"}

Issue(name) == [calls EXCEPT ![name] = @ + 1]

NoOutcome == [returned |-> FALSE, filled |-> FALSE, txHash |-> "", error |-> ""]

(* the clock when the model starts; timestamps of the feeds lie before it *)
Epoch == 2 * MaxTimeout

(* executeSwap has hashed nothing yet *)
NoWire ==
    [serialized |-> <<>>, intentHash |-> <<>>, fullMessage |-> <<>>, body |-> <<>>,
     txHash |-> <<>>]

NoIntent ==
    [nonce |-> 0, sell_amount |-> 0, start_time |-> 0, end_time |-> 0,
     start_buy_amount |-> 0, end_buy_amount |-> 0]

(* the get_nonce view has not answered *)
NoView == [answered |-> FALSE, ok |-> FALSE, value |-> 0]

(* waitForOrderCompletion is not running *)
TrackIdle ==
    /\ tpc = "idle"
    /\ now = Epoch
    /\ startTime = 0
    /\ timeoutMs = 0
    /\ pollIntervalMs = 0
    /\ polls = 0
    /\ sleeps = 0
    /\ pollErrors = 0
    /\ iterStart = 0
    /\ iterGets = 0
    /\ iterNet = 0
    /\ netTime = 0
    /\ lastFeed = <<>>
    /\ lastFeedAt = 0
    /\ stillPending = "unread"
    /\ tresult = NoOutcome

(* executeSwap is not running *)
SwapIdle ==
    /\ pc = "idle"
    /\ sellAmount = [m |-> <<>>, e |-> 0]
    /\ nonceVal = NoView
    /\ sellAmountAtomic = 0
    /\ decimals = 0
    /\ currentEscrowBal = 0
    /\ balanceView = "pending"
    /\ deposits = <<>>
    /\ depositOutcome = "none"
    /\ calls = [n \in CallNames |-> 0]
    /\ oracleError = NoError
    /\ result = NoResult
    /\ intent = NoIntent
    /\ wire = NoWire
    /\ keysSent = <<>>
    /\ relayerError = NoError

Failure(message) == [returned |-> TRUE, success |-> FALSE, message |-> message]

(* if (currentEscrowBal < sellAmountAtomic) *)
NeedsDepositOff(bal, required) == bal <= required

NeedsDeposit(bal, required) == bal < required

(* depositNeeded = (sellAmountAtomic - currentEscrowBal) / Math.pow(10, decimals) *)
DepositNeeded(required, bal, dec) == FDiv(required - bal, Pow10(dec))

(* rawAmount = Math.floor(amount * Math.pow(10, decimals)) *)
RawAmount(amount, dec) == FFloor(FMul(amount, Pow10(dec)))

(* if (!depositSuccess) return failure *)
DepositAcceptedAlways(success) == TRUE

DepositAccepted(success) == success

(* message: error.message || 'Swap failed' *)
CatchMessageDropped(message) == <<"Swap failed">>

CatchMessage(message) == IF message # "" THEN <<message>> ELSE <<"Swap failed">>

RejectedMessageGeneric(error) == <<"Relayer rejected">>

(* message: `Relayer rejected: ${e.response.data.error}` *)
RejectedMessage(error) == <<"Relayer rejected: ", error>>

(* the catch around depositToEscrow *)
DepositFailedMessage(message) ==
    <<"Deposit failed: ", message, ". Please ensure you have enough funds in your wallet.">>

Return(r) ==
    /\ pc' = "done"
    /\ result' = r

(* outer catch of executeSwap *)
Caught(message) == Return(Failure(CatchMessage(message)))

(* depositToEscrow rethrows, executeSwap's inner catch returns *)
DepositThrew(message) ==
    /\ depositOutcome' = "threw"
    /\ Return(Failure(DepositFailedMessage(message)))

(* 5. Fetch On-Chain Nonce: the view call is issued *)
ProceedToNonce ==
    /\ pc' = "get_nonce"
    /\ calls' = Issue("get_nonce")
    /\ UNCHANGED result

NoEncoding == [ok |-> FALSE, bytes |-> <<>>, error |-> "(not called)"]

NoArguments ==
    [maker |-> <<>>, nonce |-> <<>>, sellToken |-> <<>>, buyToken |-> <<>>,
     sellAmount |-> <<>>, startBuyAmount |-> <<>>, endBuyAmount |-> <<>>,
     startTime |-> <<>>, endTime |-> <<>>]

EncIdle ==
    /\ epc = "idle"
    /\ encIn = NoArguments
    /\ encOut = NoEncoding
    /\ encField = "none"
    /\ encAlt = NoArguments
    /\ encAltOut = NoEncoding

OrderLimit == 10

NoOrders == [returned |-> FALSE, orders |-> <<>>]

OrdersIdle ==
    /\ gpc = "idle"
    /\ relayerOrders = <<>>
    /\ relayerActivity = <<>>
    /\ pendingOrders = <<>>
    /\ requestFailed = FALSE
    /\ gresult = NoOrders

ConfirmIdle ==
    /\ cpc = "idle"
    /\ swapResult = NoResult
    /\ rejection = NoError
    /\ tracked = <<>>
    /\ pollResult = NoOutcome
    /\ notifications = <<>>
    /\ handler = "idle"
    /\ others = 0
    /\ delivery = "none"

EscrowIdle ==
    /\ okind = "none"
    /\ opc = "idle"
    /\ orawAmount = 0
    /\ okeySent = <<>>
    /\ ofailedAt = "nowhere"
    /\ oresult = NoResult

FaucetIdle ==
    /\ fpc = <<>>
    /\ claimHistory = [count |-> 0, firstClaimTime |-> -1]
    /\ fclock = 0
    /\ grants = <<>>

RaceIdle ==
    /\ rpc = <<>>
    /\ rneed = <<>>
    /\ rbal = <<>>
    /\ rdep = <<>>
    /\ rnonce = <<>>
    /\ rres = <<>>
    /\ chainEscrow = 0
    /\ chainNonce = 0
    /\ posted = <<>>

Users == {"u1", "u2"}
NoQuote == 0

QuotesIdle ==
    /\ pendingQuotes = [u \in Users |-> NoQuote]
    /\ confirms = <<>>
    /\ executions = <<>>
    /\ quoted = 0

NoTimer == 0
Chats == {"c1", "c2"}
MonitorSwaps == {"s0", "s1", "s2"}

MonitorIdle ==
    /\ interval = NoTimer
    /\ timers = {}
    /\ started = 0
    /\ subscribedChatIds = <<>>
    /\ processedHashes = {}
    /\ runs = <<>>
    /\ delivered = [m \in Chats \X MonitorSwaps |-> 0]
    /\ lastCall = "none"
    /\ monitorCalls = 0

PrivyIdle ==
    /\ privyUsers = <<>>
    /\ walletCount = 0
    /\ pcalls = <<>>
    /\ creations = <<>>

CancelIdle ==
    /\ kpc = "idle"
    /\ cancelResult = "none"

LateIdle ==
    /\ QuotesIdle
    /\ MonitorIdle
    /\ PrivyIdle
    /\ CancelIdle

ConcIdle ==
    /\ FaucetIdle
    /\ RaceIdle
    /\ LateIdle

AuxIdle ==
    /\ EncIdle
    /\ OrdersIdle
    /\ ConfirmIdle
    /\ EscrowIdle
    /\ ConcIdle

EarlyIdle ==
    /\ SwapIdle
    /\ TrackIdle
    /\ EncIdle
    /\ OrdersIdle
    /\ ConfirmIdle
    /\ EscrowIdle
    /\ FaucetIdle
    /\ RaceIdle

(* quote.buyAmount in smallest units, and Date.now() when the intent is created *)
BuyAmounts == (0..MaxAmount) \cup {20, 100000000}
ClockValues == {999, 1000, 2000500}

ValidityWindow == 300

EndTimeNow(start) == start

(* end_time: now + 300 *)
EndTime(start) == start + ValidityWindow

(* Math.floor(buyAmountAtomic * 0.95) *)
EndBuyAmount(buyAmountAtomic) ==
    IF buyAmountAtomic = 0 THEN 0 ELSE FFloor(FMul(FDiv(95, 100), buyAmountAtomic))

(* the maker's nonce on chain *)
ChainNonces == {0, 7}

Viewed(n) == [answered |-> TRUE, ok |-> TRUE, value |-> n]
ViewedNothing == [answered |-> TRUE, ok |-> TRUE, value |-> -1]
ViewFailed == [answered |-> TRUE, ok |-> FALSE, value |-> -1]

NonceViews == {Viewed(n) : n \in ChainNonces} \cup {ViewedNothing, ViewFailed}

(* nonce = nonceVal[0]?.toString() || "0"; catch: nonce = Date.now().toString() *)
NonceOf(view, clock) ==
    IF ~view.ok THEN clock
    ELSE IF view.value >= 0 THEN view.value ELSE 0

(* 6. Create Intent, now = Math.floor(Date.now() / 1000) *)
Intent(nonce, buyAmountAtomic, clock) ==
    [nonce |-> nonce,
     sell_amount |-> sellAmountAtomic,
     start_time |-> clock \div 1000,
     end_time |-> EndTime(clock \div 1000),
     start_buy_amount |-> buyAmountAtomic,
     end_buy_amount |-> EndBuyAmount(buyAmountAtomic)]

DecimalDigits == <<"0", "1", "2", "3", "4", "5", "6", "7", "8", "9">>

(* n.toString() of an integer 0 <= n < 2^31, a string being its characters *)
RECURSIVE NumberToString(_)
NumberToString(n) ==
    IF n < 10 THEN <<DecimalDigits[n + 1]>>
    ELSE Append(NumberToString(n \div 10), DecimalDigits[(n % 10) + 1])

(* BigInt(str) of a string of decimal digits *)
RECURSIVE ToBigInt(_)
ToBigInt(str) ==
    IF str = <<>> THEN 0
    ELSE 10 * ToBigInt(SubSeq(str, 1, Len(str) - 1))
         + (CHOOSE d \in 0..9 : DecimalDigits[d + 1] = str[Len(str)])

(* Buffer.from(nonce, 'utf-8').toString('hex'): two hex digits per character *)
Utf8Hex(str) == [i \in 1..(2 * Len(str)) |-> IF i % 2 = 1 THEN "3" ELSE str[(i + 1) \div 2]]

(* hashIntent: SHA3-256 of the bytes, kept as the term over what was encoded *)
hashIntent(serialized) == <<"sha3_256", serialized>>

(* 7. serializeIntent(address, nonce, ...), hashIntent, fullMessage; the        *)
(* serialized fields are the u64 values serializeIntent writes                  *)
Hashed(nonce, buyAmountAtomic, start) ==
    LET serialized == [maker |-> "address",
                       nonce |-> ToBigInt(nonce),
                       sellAmount |-> sellAmountAtomic,
                       startBuyAmount |-> buyAmountAtomic,
                       endBuyAmount |-> EndBuyAmount(buyAmountAtomic),
                       startTime |-> start,
                       endTime |-> start + ValidityWindow]
    IN  [serialized |-> serialized,
         intentHash |-> hashIntent(serialized),
         fullMessage |-> <<"APTOS\nmessage: ", hashIntent(serialized), "\nnonce: ", nonce>>,
         body |-> <<>>,
         txHash |-> <<>>]

(* the body of POST /intents with the intent rebuilt at submission time *)
BodyRestamped(i, intentHash) ==
    <<[intent |-> [maker |-> "address",
                   nonce |-> NumberToString(i.nonce),
                   sell_amount |-> NumberToString(i.sell_amount),
                   start_time |-> NumberToString(i.start_time + 1),
                   end_time |-> NumberToString(i.end_time + 1),
                   start_buy_amount |-> NumberToString(i.start_buy_amount),
                   end_buy_amount |-> NumberToString(i.end_buy_amount)],
       signingNonce |-> <<"0", "x">> \o Utf8Hex(NumberToString(i.nonce)),
       intentHash |-> <<"0x", intentHash>>]>>

(* 9. the body of POST /intents: intent, signingNonce, intentHash *)
Body(i, intentHash) ==
    <<[intent |-> [maker |-> "address",
                   nonce |-> NumberToString(i.nonce),
                   sell_amount |-> NumberToString(i.sell_amount),
                   start_time |-> NumberToString(i.start_time),
                   end_time |-> NumberToString(i.end_time),
                   start_buy_amount |-> NumberToString(i.start_buy_amount),
                   end_buy_amount |-> NumberToString(i.end_buy_amount)],
       signingNonce |-> <<"0", "x">> \o Utf8Hex(NumberToString(i.nonce)),
       intentHash |-> <<"0x", intentHash>>]>>

(* walletInfo.public_key as bytes: 32 bytes, the same behind a prefix byte, one byte short *)
KeyLength == 32
Key32 == [i \in 1..KeyLength |-> i]
PublicKeys == {Key32, <<0>> \o Key32, SubSeq(Key32, 1, KeyLength - 1)}

(* if (pubKeyBuf.length === 33) pubKeyBuf = pubKeyBuf.subarray(1) *)
Trimmed(pubKeyBuf) ==
    IF Len(pubKeyBuf) = KeyLength + 1 THEN SubSeq(pubKeyBuf, 2, Len(pubKeyBuf)) ELSE pubKeyBuf

Sent(call, key, as) == [call |-> call, key |-> key, as |-> as]

(* amounts /swap accepts (parseFloat(parts[3]) > 0): multiples of 0.8 smallest *)
(* units, 0.0000008 or 0.000000008 tokens, up to the first above MaxAmount    *)
QuoteAmounts(dec) == {FDiv(u, 125 * Pow10(dec - 2)) : u \in 1..(MaxAmount + 2)}

(* sellAmountAtomic = Math.floor(quote.sellAmount * Math.pow(10, decimals)) *)
SellAmountAtomic(amount, dec) == FFloor(FMul(amount, Pow10(dec)))

SwapCalled ==
    /\ pc = "getOrCreateUser"
    /\ decimals \in TokenDecimals
    /\ sellAmount \in QuoteAmounts(decimals)
    /\ sellAmountAtomic = SellAmountAtomic(sellAmount, decimals)
    /\ nonceVal = NoView
    /\ currentEscrowBal = 0
    /\ balanceView = "pending"
    /\ deposits = <<>>
    /\ depositOutcome = "none"
    /\ calls = [n \in CallNames |-> 0]
    /\ oracleError = NoError
    /\ result = NoResult
    /\ intent = NoIntent
    /\ wire = NoWire
    /\ keysSent = <<>>
    /\ relayerError = NoError

SwapInit ==
    /\ SwapCalled
    /\ TrackIdle
    /\ AuxIdle

(* 1. getOrCreateUser returns or throws; then the balance view is issued *)
GetUser ==
    /\ pc = "getOrCreateUser"
    /\ \/ /\ pc' = "view_balance"
          /\ UNCHANGED result
       \/ Caught("No server wallet found for signing. Please run /deposit again.")
       \/ \E msg \in ErrorMessages : Caught(msg)
    /\ UNCHANGED <<sellAmount, nonceVal, sellAmountAtomic, decimals, currentEscrowBal, balanceView,
                   deposits, depositOutcome, calls, oracleError>>
    /\ UNCHANGED <<intent, wire, keysSent, relayerError>>
    /\ UNCHANGED <<trackVars, auxVars>>

(* 3./4. the balance view returns or throws; auto-deposit if needed *)
ViewBalance ==
    /\ pc = "view_balance"
    /\ \E outcome \in (0..MaxAmount) \cup {-1} :
          /\ balanceView' = IF outcome = -1 THEN "failed" ELSE "ok"
          /\ currentEscrowBal' = IF outcome = -1 THEN 0 ELSE outcome
    /\ IF NeedsDeposit(currentEscrowBal', sellAmountAtomic)
       THEN /\ deposits' = Append(deposits,
                  RawAmount(DepositNeeded(sellAmountAtomic, currentEscrowBal', decimals),
                            decimals))
            /\ pc' = "build"
            /\ calls' = Issue("build")
            /\ UNCHANGED result
       ELSE /\ ProceedToNonce
            /\ UNCHANGED deposits
    /\ UNCHANGED <<sellAmount, nonceVal, sellAmountAtomic, decimals, depositOutcome, oracleError>>
    /\ UNCHANGED <<intent, wire, keysSent, relayerError>>
    /\ UNCHANGED <<trackVars, auxVars>>

(* depositToEscrow 1.-3.: transaction built, signing message sent to Privy *)
DepositBuilt ==
    /\ pc = "build"
    /\ \/ /\ pc' = "signTransaction"
          /\ calls' = Issue("signTransaction")
          /\ UNCHANGED <<result, depositOutcome>>
       \/ /\ \E msg \in ErrorMessages : DepositThrew(msg)
          /\ UNCHANGED calls
    /\ UNCHANGED <<sellAmount, nonceVal, sellAmountAtomic, decimals, currentEscrowBal, balanceView,
                   deposits, oracleError>>
    /\ UNCHANGED <<intent, wire, keysSent, relayerError>>
    /\ UNCHANGED <<trackVars, auxVars>>

(* depositToEscrow 3.-5.: signature, then the wallet's public key *)
DepositSigned ==
    /\ pc = "signTransaction"
    /\ \/ /\ pc' = "wallet_key"
          /\ UNCHANGED <<result, depositOutcome>>
       \/ DepositThrew("Failed to get signature from Privy")
       \/ \E msg \in ErrorMessages : DepositThrew(msg)
    /\ UNCHANGED <<sellAmount, nonceVal, sellAmountAtomic, decimals, currentEscrowBal, balanceView,
                   deposits, calls, oracleError>>
    /\ UNCHANGED <<intent, wire, keysSent, relayerError>>
    /\ UNCHANGED <<trackVars, auxVars>>

(* depositToEscrow 4.-6.: public key normalised, transaction submitted *)
DepositKey ==
    /\ pc = "wallet_key"
    /\ \/ \E key \in PublicKeys :
             /\ Len(key) \in {KeyLength, KeyLength + 1}
             /\ pc' = "submit"
             /\ calls' = Issue("submit")
             /\ keysSent' = Append(keysSent, Sent("submit", key, Trimmed(key)))
             /\ UNCHANGED <<result, depositOutcome>>
       \/ /\ \/ DepositThrew("Could not get public key from wallet")
             \/ \E key \in PublicKeys :
                   /\ Len(key) \notin {KeyLength, KeyLength + 1}
                   /\ DepositThrew("Invalid public key length")
             \/ \E msg \in ErrorMessages : DepositThrew(msg)
          /\ UNCHANGED <<calls, keysSent>>
    /\ UNCHANGED <<sellAmount, nonceVal, sellAmountAtomic, decimals, currentEscrowBal, balanceView,
                   deposits, oracleError, intent, wire, relayerError>>
    /\ UNCHANGED <<trackVars, auxVars>>

(* depositToEscrow 6.-7.: submitted, waiting for confirmation *)
DepositSubmitted ==
    /\ pc = "submit"
    /\ \/ /\ pc' = "waitForTransaction"
          /\ calls' = Issue("waitForTransaction")
          /\ UNCHANGED <<result, depositOutcome>>
       \/ /\ \E msg \in ErrorMessages : DepositThrew(msg)
          /\ UNCHANGED calls
    /\ UNCHANGED <<sellAmount, nonceVal, sellAmountAtomic, decimals, currentEscrowBal, balanceView,
                   deposits, oracleError>>
    /\ UNCHANGED <<intent, wire, keysSent, relayerError>>
    /\ UNCHANGED <<trackVars, auxVars>>

(* depositToEscrow 7. and executeSwap's check of depositSuccess *)
DepositConfirmed ==
    /\ pc = "waitForTransaction"
    /\ \/ \E success \in BOOLEAN :
             /\ depositOutcome' = IF success THEN "confirmed" ELSE "reverted"
             /\ IF DepositAccepted(success)
                THEN ProceedToNonce
                ELSE /\ Return(Failure(<<"Auto-deposit to escrow failed. Please try again.">>))
                     /\ UNCHANGED calls
       \/ /\ \E msg \in ErrorMessages : DepositThrew(msg)
          /\ UNCHANGED calls
    /\ UNCHANGED <<sellAmount, nonceVal, sellAmountAtomic, decimals, currentEscrowBal, balanceView,
                   deposits, oracleError>>
    /\ UNCHANGED <<intent, wire, keysSent, relayerError>>
    /\ UNCHANGED <<trackVars, auxVars>>

(* 5.-7. nonce read (or timestamp fallback), intent hashed, signMessage issued *)
NonceViewed ==
    /\ pc = "get_nonce"
    /\ pc' = "signMessage"
    /\ calls' = Issue("signMessage")
    /\ \E view \in NonceViews, buyAmountAtomic \in BuyAmounts, clock \in ClockValues :
          /\ nonceVal' = view
          /\ intent' = Intent(NonceOf(view, clock), buyAmountAtomic, clock)
          /\ wire' = Hashed(NumberToString(NonceOf(view, clock)), buyAmountAtomic, clock \div 1000)
    /\ UNCHANGED <<sellAmount, sellAmountAtomic, decimals, currentEscrowBal, balanceView,
                   deposits, depositOutcome, oracleError, result, keysSent, relayerError>>
    /\ UNCHANGED <<trackVars, auxVars>>

(* 7.-8. signMessage returns the signature or rethrows the oracle's error *)
IntentSigned ==
    /\ pc = "signMessage"
    /\ \/ /\ pc' = "relayer_key"
          /\ UNCHANGED <<result, oracleError>>
       \/ \E msg \in ErrorMessages :
             /\ oracleError' = msg
             /\ Caught(msg)
    /\ UNCHANGED <<sellAmount, nonceVal, sellAmountAtomic, decimals, currentEscrowBal, balanceView,
                   deposits, depositOutcome, calls>>
    /\ UNCHANGED <<intent, wire, keysSent, relayerError>>
    /\ UNCHANGED <<trackVars, auxVars>>

(* 8.-9. public key fetched, intent POSTed to the relayer *)
RelayerKey ==
    /\ pc = "relayer_key"
    /\ \/ \E key \in PublicKeys :
             /\ pc' = "post"
             /\ calls' = Issue("post")
             /\ keysSent' = Append(keysSent, Sent("post", key, key))
             /\ wire' = [wire EXCEPT !.body = Body(intent, wire.intentHash)]
             /\ UNCHANGED result
       \/ /\ \E msg \in ErrorMessages : Caught(msg)
          /\ UNCHANGED <<calls, keysSent, wire>>
    /\ UNCHANGED <<sellAmount, nonceVal, sellAmountAtomic, decimals, currentEscrowBal, balanceView,
                   deposits, depositOutcome, oracleError, intent, relayerError>>
    /\ UNCHANGED <<trackVars, auxVars>>

(* 9. the relayer answers the POST *)
Posted ==
    /\ pc = "post"
    /\ \/ /\ Return([returned |-> TRUE, success |-> TRUE, message |-> <<"Order submitted!">>])
          /\ wire' = [wire EXCEPT !.txHash = <<"0x", wire.intentHash>>]
          /\ UNCHANGED relayerError
       \/ \E err \in ErrorMessages \ {""} :
             /\ relayerError' = err
             /\ Return(Failure(RejectedMessage(err)))
             /\ UNCHANGED wire
       \/ /\ \E msg \in ErrorMessages : Caught(msg)
          /\ UNCHANGED <<relayerError, wire>>
    /\ UNCHANGED <<sellAmount, nonceVal, sellAmountAtomic, decimals, currentEscrowBal, balanceView,
                   deposits, depositOutcome, calls, oracleError, intent, keysSent>>
    /\ UNCHANGED <<trackVars, auxVars>>

SwapNext ==
    \/ GetUser
    \/ ViewBalance
    \/ DepositBuilt
    \/ DepositSigned
    \/ DepositKey
    \/ DepositSubmitted
    \/ DepositConfirmed
    \/ NonceViewed
    \/ IntentSigned
    \/ RelayerKey
    \/ Posted

SpecSwap == SwapInit /\ [][SwapNext]_vars

(***************************************************************************)
(* OrderService.waitForOrderCompletion                                     *)
(***************************************************************************)
IntentHash == "0xh1"
MakerAddress == "0xAb"

Hashes == {IntentHash, "0xt9"}
Makers == {"0xAB", "0xcd"}

(* String.prototype.toLowerCase on the addresses of the model *)
Lower(s) == IF s \in {"0xAb", "0xAB", "0xab"} THEN "0xab" ELSE s

(* entries of GET /activity: hash, success, timestamp(ms), intent.maker *)
Activities == [hash : Hashes, maker : Makers, success : BOOLEAN,
               timestamp : {0, Epoch - MaxTimeout}]

Feeds == UNION {[1..n -> Activities] : n \in 0..MaxFeedLen}

(* entries of GET /orders: id, intent.maker *)
PendingFeeds == {<<>>} \cup {<<[id |-> h, maker |-> m]>> : h \in Hashes, m \in Makers}

(* while (Date.now() - startTime < timeoutMs) *)
LoopContinuesAtDeadline(elapsed, timeout) == elapsed <= timeout

LoopContinues(elapsed, timeout) == elapsed < timeout

(* the two nested ifs on an activity entry *)
Matches(activity, intentHash, makerAddress, at, timeout) ==
    /\ Lower(activity.maker) = Lower(makerAddress)
    /\ \/ activity.hash = intentHash
       \/ at - activity.timestamp < timeout * 2

(* the for loop: index of the first entry that matches, 0 if none *)
FirstMatch(feed, intentHash, makerAddress, at, timeout) ==
    LET hits == {i \in 1..Len(feed) : Matches(feed[i], intentHash, makerAddress, at, timeout)}
    IN  IF hits = {} THEN 0 ELSE CHOOSE i \in hits : \A j \in hits : i <= j

(* both branches of if (activity.success) return *)
ReturnsOnFailureOnly(feed, i) == i # 0 /\ ~feed[i].success

ReturnsOnSuccessOnly(feed, i) == i # 0 /\ feed[i].success

Returns(feed, i) == i # 0

Filled(hash) == [returned |-> TRUE, filled |-> TRUE, txHash |-> hash, error |-> ""]

Failed == [returned |-> TRUE, filled |-> FALSE, txHash |-> "", error |-> "Order failed on-chain"]

TimedOut == [returned |-> TRUE, filled |-> FALSE, txHash |-> "",
             error |-> "Timeout waiting for order completion"]

OutcomeUnsettled(activity) == IF activity.success THEN Filled(activity.hash) ELSE NoOutcome

Outcome(activity) == IF activity.success THEN Filled(activity.hash) ELSE Failed

(* o => o.id === intentHash && maker matches *)
StillPending(orders, intentHash, makerAddress) ==
    \E i \in 1..Len(orders) :
        orders[i].id = intentHash /\ Lower(orders[i].maker) = Lower(makerAddress)

TrackInit ==
    /\ SwapIdle
    /\ AuxIdle
    /\ tpc = "start"
    /\ now = Epoch
    /\ startTime = 0
    /\ timeoutMs \in 1..MaxTimeout
    /\ pollIntervalMs \in 1..MaxPollInterval
    /\ polls = 0
    /\ sleeps = 0
    /\ pollErrors = 0
    /\ iterStart = 0
    /\ iterGets = 0
    /\ iterNet = 0
    /\ netTime = 0
    /\ lastFeed = <<>>
    /\ lastFeedAt = 0
    /\ stillPending = "unread"
    /\ tresult = NoOutcome

(* the loop test at time t: next GET /activity issued, or the timeout returned *)
LoopTop(t, start) ==
    IF LoopContinues(t - start, timeoutMs)
    THEN /\ tpc' = "activity"
         /\ polls' = polls + 1
         /\ iterStart' = t - start
         /\ iterGets' = 1
         /\ iterNet' = 0
         /\ UNCHANGED tresult
    ELSE /\ tpc' = "done"
         /\ tresult' = TimedOut
         /\ UNCHANGED <<polls, iterStart, iterGets, iterNet>>

(* a relayer request takes some time *)
Request(latency) ==
    /\ now' = now + latency
    /\ netTime' = netTime + latency
    /\ iterNet' = iterNet + latency

(* await this.sleep(pollIntervalMs) begins; the iteration's locals are gone *)
Sleep ==
    /\ tpc' = "sleep"
    /\ sleeps' = sleeps + 1
    /\ lastFeed' = <<>>
    /\ lastFeedAt' = 0

(* if (!stillPending): the order is in neither feed and is given up at once *)
NotPendingConcluded ==
    /\ tpc' = "done"
    /\ tresult' = Failed
    /\ lastFeed' = <<>>
    /\ lastFeedAt' = 0
    /\ UNCHANGED sleeps

(* if (!stillPending) { await this.sleep(pollIntervalMs); continue; } *)
NotPending ==
    /\ Sleep
    /\ UNCHANGED tresult

(* an error escaped the try block that would end the call *)
PollFailedFatal ==
    /\ pollErrors' = pollErrors + 1
    /\ tpc' = "done"
    /\ tresult' = [returned |-> TRUE, filled |-> FALSE, txHash |-> "", error |-> "Network Error"]
    /\ lastFeed' = <<>>
    /\ lastFeedAt' = 0
    /\ UNCHANGED sleeps

(* catch (error): log, sleep one interval *)
PollFailed ==
    /\ pollErrors' = pollErrors + 1
    /\ Sleep
    /\ UNCHANGED tresult

(* the call: startTime taken, first loop test *)
Start ==
    /\ tpc = "start"
    /\ startTime' = now
    /\ LoopTop(now, now)
    /\ UNCHANGED <<now, timeoutMs, pollIntervalMs, sleeps, pollErrors, netTime,
                   lastFeed, lastFeedAt>>
    /\ stillPending' = "unread"
    /\ UNCHANGED <<swapVars, auxVars>>

(* GET /activity answered: scan the feed, return or ask for the pending orders *)
ActivityFetched ==
    /\ tpc = "activity"
    /\ \E latency \in 0..MaxLatency : Request(latency)
    /\ \/ \E feed \in Feeds :
            /\ lastFeed' = feed
            /\ lastFeedAt' = now'
            /\ LET i == FirstMatch(feed, IntentHash, MakerAddress, now', timeoutMs)
               IN  IF Returns(feed, i)
                   THEN /\ tpc' = "done"
                        /\ tresult' = Outcome(feed[i])
                        /\ UNCHANGED iterGets
                   ELSE /\ tpc' = "orders"
                        /\ iterGets' = iterGets + 1
                        /\ UNCHANGED tresult
            /\ UNCHANGED <<sleeps, pollErrors>>
       \/ /\ PollFailed
          /\ UNCHANGED iterGets
    /\ UNCHANGED <<startTime, timeoutMs, pollIntervalMs, polls, iterStart, stillPending>>
    /\ UNCHANGED <<swapVars, auxVars>>

(* GET /orders answered: pending or not, sleep one interval *)
OrdersFetched ==
    /\ tpc = "orders"
    /\ \E latency \in 0..MaxLatency : Request(latency)
    /\ \/ \E orders \in PendingFeeds :
            /\ stillPending' = IF StillPending(orders, IntentHash, MakerAddress) THEN "yes" ELSE "no"
            /\ IF stillPending' = "no" THEN NotPending ELSE Sleep /\ UNCHANGED tresult
            /\ UNCHANGED pollErrors
       \/ /\ PollFailed
          /\ UNCHANGED stillPending
    /\ UNCHANGED <<startTime, timeoutMs, pollIntervalMs, polls, iterStart, iterGets>>
    /\ UNCHANGED <<swapVars, auxVars>>

(* the sleep is over: loop test *)
Slept ==
    /\ tpc = "sleep"
    /\ now' = now + pollIntervalMs
    /\ LoopTop(now', startTime)
    /\ UNCHANGED <<startTime, timeoutMs, pollIntervalMs, sleeps, pollErrors, netTime,
                   lastFeed, lastFeedAt>>
    /\ stillPending' = "unread"
    /\ UNCHANGED <<swapVars, auxVars>>

TrackNext ==
    \/ Start
    \/ ActivityFetched
    \/ OrdersFetched
    \/ Slept

SpecTrack == TrackInit /\ [][TrackNext]_vars

(* every relayer request is answered or fails, and every sleep ends *)
TrackFairness ==
    /\ WF_vars(Start)
    /\ WF_vars(ActivityFetched)
    /\ WF_vars(OrdersFetched)
    /\ WF_vars(Slept)

SpecTrackLive == TrackInit /\ [][TrackNext]_vars /\ TrackFairness

Elapsed == now - startTime

(***************************************************************************)
(* serializeIntent (src/index.ts)                                          *)
(*                                                                         *)
(* A string is the sequence of its characters, a byte array the sequence   *)
(* of its bytes.  A bigint is the sequence of its base-256 digits, lowest  *)
(* first, without leading zero digits, so that setBigUint64 (the value     *)
(* modulo 2^64, little endian) is the first eight digits.  A number is     *)
(* [nan, int, frac]: int is the integer part as a bigint and frac says     *)
(* whether a fractional part follows it.  NaN stands for the number NaN    *)
(* among the elements of a number[].                                       *)
(***************************************************************************)
NaN == -1

AddressLength == 32
U64Length == 8

Chars(c, n) == [i \in 1..n |-> c]

HexDigits == <<"0", "1", "2", "3", "4", "5", "6", "7", "8", "9",
               "a", "b", "c", "d", "e", "f">>
HexDigitsUpper == <<"0", "1", "2", "3", "4", "5", "6", "7", "8", "9",
                    "A", "B", "C", "D", "E", "F">>

\* the value of one hexadecimal digit, NaN for any other character
HexVal(c) ==
    IF \E i \in 1..16 : HexDigits[i] = c
    THEN (CHOOSE i \in 1..16 : HexDigits[i] = c) - 1
    ELSE IF \E i \in 1..16 : HexDigitsUpper[i] = c
         THEN (CHOOSE i \in 1..16 : HexDigitsUpper[i] = c) - 1
         ELSE NaN

\* parseInt(clean.substring(i, i + 2), 16): the longest prefix of hexadecimal
\* digits, NaN when the first character is not one
ParseIntHex(clean, i) ==
    IF HexVal(clean[i]) = NaN
    THEN NaN
    ELSE IF i + 1 > Len(clean) \/ HexVal(clean[i + 1]) = NaN
         THEN HexVal(clean[i])
         ELSE 16 * HexVal(clean[i]) + HexVal(clean[i + 1])

hexToBytes(hex) ==
    LET clean == IF Len(hex) >= 2 /\ hex[1] = "0" /\ hex[2] = "x"
                 THEN SubSeq(hex, 3, Len(hex))
                 ELSE hex
    IN  [k \in 1..((Len(clean) + 1) \div 2) |-> ParseIntHex(clean, 2 * k - 1)]

\* the 32 elements appended for the maker: padded[32 - length + i] = makerBytes[i],
\* an assignment at a negative index adding no element
MakerField(makerBytes) ==
    IF Len(makerBytes) # AddressLength
    THEN [j \in 1..AddressLength |->
            LET i == j - (AddressLength - Len(makerBytes))
            IN  IF i >= 1 THEN makerBytes[i] ELSE 0]
    ELSE makerBytes

\* the code of a character of the strings used here
CharCode(c) ==
    CASE c = "M" -> 77 [] c = "O" -> 79 [] c = "V" -> 86 [] c = "E" -> 69
      [] c = "_" -> 95 [] c = "I" -> 73 [] c = "N" -> 78 [] c = "T" -> 84
      [] c = "S" -> 83 [] c = "W" -> 87 [] c = "A" -> 65 [] c = "P" -> 80
      [] c = "1" -> 49 [] c = "a" -> 97 [] c = "b" -> 98 [] c = ":" -> 58

serializeBytes(str) == [i \in 1..Len(str) |-> CharCode(str[i])]

DomainSeparator ==
    <<"M", "O", "V", "E", "_", "I", "N", "T", "E", "N", "T", "_",
      "S", "W", "A", "P", "_", "V", "1">>

serializeU64Low(val) == <<IF Len(val) >= 1 THEN val[1] ELSE 0>>

serializeU64(val) == [i \in 1..U64Length |-> IF i <= Len(val) THEN val[i] ELSE 0]

\* new Uint8Array(data): NaN becomes 0
ToUint8Array(data) == [i \in 1..Len(data) |-> IF data[i] = NaN THEN 0 ELSE data[i] % 256]

Encoded(bytes) == [ok |-> TRUE, bytes |-> bytes, error |-> ""]
Thrown(error) == [ok |-> FALSE, bytes |-> <<>>, error |-> error]

\* BigInt(nonce) of a string that is no integer literal throws SyntaxError
BadLiteral == [literal |-> FALSE, int |-> <<>>]
Literal(int) == [literal |-> TRUE, int |-> int]

\* BigInt(x) of a number throws RangeError unless x is an integer
Integral(x) == ~x.nan /\ ~x.frac

\* Math.floor(x), x >= 0
Floor(x) == [x EXCEPT !.frac = FALSE]

serializeIntent(a) ==
    IF ~a.nonce.literal
    THEN Thrown("SyntaxError")
    ELSE IF \/ a.sellAmount.nan \/ a.startBuyAmount.nan \/ a.endBuyAmount.nan
            \/ ~Integral(a.startTime) \/ ~Integral(a.endTime)
         THEN Thrown("RangeError")
         ELSE Encoded(ToUint8Array(
                  serializeBytes(DomainSeparator)
                  \o MakerField(hexToBytes(a.maker))
                  \o serializeU64(a.nonce.int)
                  \o serializeBytes(a.sellToken)
                  \o serializeBytes(a.buyToken)
                  \o serializeU64(Floor(a.sellAmount).int)
                  \o serializeU64(Floor(a.startBuyAmount).int)
                  \o serializeU64(Floor(a.endBuyAmount).int)
                  \o serializeU64(a.startTime.int)
                  \o serializeU64(a.endTime.int)))

\* the arguments the calls are made with
Prefix0x == <<"0", "x">>
Maker20 == Prefix0x \o Chars("a", 40)
Maker20Padded == Prefix0x \o Chars("0", 24) \o Chars("a", 40)
Maker20Upper == Prefix0x \o Chars("A", 40)
Maker32 == Prefix0x \o Chars("b", 64)
Maker32LeadingZero == Prefix0x \o Chars("0", 2) \o Chars("b", 62)
Maker32NotHex == Prefix0x \o Chars("z", 2) \o Chars("b", 62)
Maker33 == Prefix0x \o <<"1", "2">> \o Chars("b", 64)
Maker1 == Prefix0x \o <<"1">>

MakerStrings == {Maker20, Maker20Padded, Maker20Upper, Maker32, Maker32LeadingZero,
                 Maker32NotHex, Maker33, Maker1}

TwoTo64 == Chars(0, U64Length) \o <<1>>
MaxU64 == Chars(255, U64Length)

BigInts == {<<>>, <<1>>, <<1, 1>>, MaxU64, TwoTo64, <<1>> \o Chars(0, U64Length - 1) \o <<1>>}

Nonces == {Literal(v) : v \in BigInts} \cup {BadLiteral}

Numbers == [nan : {FALSE}, int : BigInts, frac : BOOLEAN]
               \cup {[nan |-> TRUE, int |-> <<>>, frac |-> FALSE]}

Tokens == {<<"a">>, <<"a", "b">>, <<"b">>, <<"b", "a">>}

FieldNames == {"maker", "nonce", "sellToken", "buyToken", "sellAmount",
               "startBuyAmount", "endBuyAmount", "startTime", "endTime"}

FieldValues(f) ==
    CASE f = "maker" -> MakerStrings
      [] f = "nonce" -> Nonces
      [] f \in {"sellToken", "buyToken"} -> Tokens
      [] OTHER -> Numbers

Whole(v) == [nan |-> FALSE, int |-> v, frac |-> FALSE]

EncodeInit ==
    /\ SwapIdle
    /\ TrackIdle
    /\ epc = "input"
    /\ encIn \in [maker : MakerStrings,
                  nonce : {Literal(<<1>>), Literal(TwoTo64)},
                  sellToken : {<<"a">>},
                  buyToken : {<<"b">>, <<"b", "a">>},
                  sellAmount : {Whole(<<1, 1>>), [nan |-> FALSE, int |-> <<1>>, frac |-> TRUE]},
                  startBuyAmount : {Whole(<<1>>)},
                  endBuyAmount : {Whole(<<>>)},
                  startTime : {Whole(<<1>>)},
                  endTime : {Whole(<<1, 1>>)}]
    /\ encOut = NoEncoding
    /\ encField = "none"
    /\ encAlt = NoArguments
    /\ encAltOut = NoEncoding
    /\ OrdersIdle
    /\ ConfirmIdle
    /\ EscrowIdle
    /\ ConcIdle

\* one call of serializeIntent
EncodeFirst ==
    /\ epc = "input"
    /\ epc' = "encoded"
    /\ encOut' = serializeIntent(encIn)
    /\ UNCHANGED <<encIn, encField, encAlt, encAltOut>>
    /\ UNCHANGED <<swapVars, trackVars, ordVars, confVars, opVars, concVars>>

\* a second call whose arguments differ from the first in exactly one field
EncodeVaried ==
    /\ epc = "encoded"
    /\ epc' = "varied"
    /\ \E f \in FieldNames :
          \E v \in FieldValues(f) \ {encIn[f]} :
             /\ encField' = f
             /\ encAlt' = [encIn EXCEPT ![f] = v]
             /\ encAltOut' = serializeIntent(encAlt')
    /\ UNCHANGED <<encIn, encOut>>
    /\ UNCHANGED <<swapVars, trackVars, ordVars, confVars, opVars, concVars>>

EncodeNext ==
    \/ EncodeFirst
    \/ EncodeVaried

SpecEncode == EncodeInit /\ [][EncodeNext]_vars

(***************************************************************************)
(* OrderService.getOrders                                                  *)
(*                                                                         *)
(* relayerOrders and relayerActivity are what the relayer holds; a GET     *)
(* either yields the list or fails.  The clock of the mapping is now.      *)
(***************************************************************************)
MakerPatterns == {"mine", "other", "mixed"}
StampPatterns == {"rising", "falling", "same", "missing"}
SuccessPatterns == {"all", "none", "mixed"}

\* intent.maker of the i-th entry of a list
MakerAt(pattern, i) ==
    CASE pattern = "mine" -> "0xAB"
      [] pattern = "other" -> "0xcd"
      [] pattern = "mixed" -> IF i % 2 = 1 THEN "0xAB" ELSE "0xcd"

\* timestamp of the i-th entry of a list; 0 when the relayer sent none
StampAt(pattern, i) ==
    CASE pattern = "rising" -> i
      [] pattern = "falling" -> MaxListed + 2 - i
      [] pattern = "same" -> 2
      [] pattern = "missing" -> 0

SuccessAt(pattern, i) ==
    CASE pattern = "all" -> TRUE
      [] pattern = "none" -> FALSE
      [] pattern = "mixed" -> i % 2 = 0

\* entries of GET /orders: id, intent.maker, timestamp
RelayerOrders ==
    {[i \in 1..n |-> [id |-> <<"order", i>>, maker |-> MakerAt(m, i),
                      timestamp |-> StampAt(s, i)]] :
        n \in 0..MaxListed, m \in MakerPatterns, s \in StampPatterns}

\* entries of GET /activity: hash, success, intent.maker, timestamp
RelayerActivities ==
    {[i \in 1..n |-> [hash |-> <<"tx", i>>, maker |-> MakerAt(m, i),
                      success |-> SuccessAt(p, i), timestamp |-> StampAt(s, i)]] :
        n \in 0..MaxListed, m \in MakerPatterns, s \in StampPatterns \ {"missing"},
        p \in SuccessPatterns}

mapPendingOrder(order) ==
    [id |-> order.id, maker |-> order.maker, status |-> "PENDING",
     timestamp |-> IF order.timestamp # 0 THEN order.timestamp ELSE now]

StatusOfAlwaysFilled(success) == "FILLED"

StatusOf(success) == IF success THEN "FILLED" ELSE "CANCELLED"

mapActivityOrder(activity) ==
    [id |-> activity.hash, maker |-> activity.maker, status |-> StatusOf(activity.success),
     timestamp |-> activity.timestamp]

\* the entries of list whose maker is makerAddress, compared in lower case, in order
Filter(list, makerAddress) ==
    LET Kept == {i \in 1..Len(list) : Lower(list[i].maker) = Lower(makerAddress)}
        Nth(k) == CHOOSE i \in Kept : Cardinality({j \in Kept : j < i}) = k - 1
    IN  [k \in 1..Cardinality(Kept) |-> list[Nth(k)]]

\* (a, b) => b.timestamp - a.timestamp is negative: a goes before b
BeforeAscending(a, b) == a.timestamp < b.timestamp

Before(a, b) == a.timestamp > b.timestamp

\* Array.prototype.sort, which is stable
Sort(orders) ==
    LET n == Len(orders)
        Rank(i) == 1 + Cardinality({j \in 1..n :
                          \/ Before(orders[j], orders[i])
                          \/ (~Before(orders[i], orders[j]) /\ j < i)})
    IN  [k \in 1..n |-> orders[CHOOSE i \in 1..n : Rank(i) = k]]

Slice(orders, count) == SubSeq(orders, 1, IF Len(orders) < count THEN Len(orders) ELSE count)

OrdersInit ==
    /\ SwapIdle
    /\ TrackIdle
    /\ EncIdle
    /\ ConfirmIdle
    /\ EscrowIdle
    /\ ConcIdle
    /\ gpc = "orders"
    /\ relayerOrders \in RelayerOrders
    /\ relayerActivity \in RelayerActivities
    /\ pendingOrders = <<>>
    /\ requestFailed = FALSE
    /\ gresult = NoOrders

\* the catch block of getOrders
OrdersCaught ==
    /\ gpc' = "done"
    /\ requestFailed' = TRUE
    /\ gresult' = [returned |-> TRUE, orders |-> <<>>]
    /\ UNCHANGED pendingOrders

\* GET /orders answered
PendingFetched ==
    /\ gpc = "orders"
    /\ \/ /\ gpc' = "activity"
          /\ pendingOrders' = relayerOrders
          /\ UNCHANGED <<requestFailed, gresult>>
       \/ OrdersCaught
    /\ UNCHANGED <<relayerOrders, relayerActivity>>
    /\ UNCHANGED <<swapVars, trackVars, encVars, confVars, opVars, concVars>>

\* GET /activity answered; the lists are filtered, mapped, sorted and cut
ActivityListed ==
    /\ gpc = "activity"
    /\ \/ /\ gpc' = "done"
          /\ LET mine == Filter(pendingOrders, MakerAddress)
                 done == Filter(relayerActivity, MakerAddress)
                 myPendingOrders == [i \in 1..Len(mine) |-> mapPendingOrder(mine[i])]
                 myActivity == [i \in 1..Len(done) |-> mapActivityOrder(done[i])]
             IN  gresult' =
                    [returned |-> TRUE,
                     orders |-> Slice(Sort(myPendingOrders \o myActivity), OrderLimit)]
          /\ UNCHANGED <<pendingOrders, requestFailed>>
       \/ OrdersCaught
    /\ UNCHANGED <<relayerOrders, relayerActivity>>
    /\ UNCHANGED <<swapVars, trackVars, encVars, confVars, opVars, concVars>>

OrdersNext ==
    \/ PendingFetched
    \/ ActivityListed

SpecOrders == OrdersInit /\ [][OrdersNext]_vars

(***************************************************************************)
(* BotCommands.handleConfirm (src/bot/commands.ts), from the call of       *)
(* executeSwap on.  executeSwap runs as above; when it has returned only   *)
(* its result lives on.  The background task awaits waitForOrderCompletion *)
(* and receives one of the values that function returns.                   *)
(***************************************************************************)
ConfirmTimeoutMs == 60000
ConfirmPollIntervalMs == 5000

\* what waitForOrderCompletion returns
PollOutcomes == {Filled(h) : h \in Hashes} \cup {Failed, TimedOut}

ConfirmInit ==
    /\ SwapCalled
    /\ TrackIdle
    /\ EncIdle
    /\ OrdersIdle
    /\ EscrowIdle
    /\ ConcIdle
    /\ cpc = "executeSwap"
    /\ swapResult = NoResult
    /\ rejection = NoError
    /\ tracked = <<>>
    /\ pollResult = NoOutcome
    /\ notifications = <<>>
    /\ handler = "running"
    /\ others = 0
    /\ delivery = "none"

\* executeSwap has returned: if (result.success) reply "Order Submitted!",
\* else reply "Swap failed: ..."
SwapReturned ==
    /\ cpc = "executeSwap"
    /\ pc = "done"
    /\ swapResult' = result
    /\ rejection' = relayerError
    /\ cpc' = IF result.success THEN "reply_submitted" ELSE "reply_failed"
    /\ pc' = "idle"
    /\ sellAmount' = [m |-> <<>>, e |-> 0]
    /\ nonceVal' = NoView
    /\ sellAmountAtomic' = 0
    /\ decimals' = 0
    /\ currentEscrowBal' = 0
    /\ balanceView' = "pending"
    /\ deposits' = <<>>
    /\ depositOutcome' = "none"
    /\ calls' = [n \in CallNames |-> 0]
    /\ oracleError' = NoError
    /\ result' = NoResult
    /\ intent' = NoIntent
    /\ wire' = NoWire
    /\ keysSent' = <<>>
    /\ relayerError' = NoError
    /\ UNCHANGED <<tracked, pollResult, notifications, handler, others, delivery>>
    /\ UNCHANGED <<trackVars, encVars, ordVars, opVars, concVars>>

\* the reply is sent and getOrCreateUser called, or the reply throws
SubmittedReplied ==
    /\ cpc = "reply_submitted"
    /\ \/ cpc' = "getOrCreateUser"
       \/ cpc' = "reply_error"
    /\ UNCHANGED <<swapResult, rejection, tracked, pollResult, notifications,
                   handler, others, delivery>>
    /\ UNCHANGED <<swapVars, trackVars, encVars, ordVars, opVars, concVars>>

\* (async () => { ... })() is called and its promise dropped: once the task
\* awaits waitForOrderCompletion, handleConfirm runs to its end
HandlerAfterDispatchAwaited == "running"

HandlerAfterDispatch == "returned"

\* getOrCreateUser returns and the background task calls
\* waitForOrderCompletion(intentHash, wallet.address, 60000, 5000), or it throws
UserFetched ==
    /\ cpc = "getOrCreateUser"
    /\ \/ /\ cpc' = "polling"
          /\ tracked' = <<IntentHash, MakerAddress, ConfirmTimeoutMs, ConfirmPollIntervalMs>>
          /\ handler' = HandlerAfterDispatch
       \/ /\ cpc' = "reply_error"
          /\ UNCHANGED <<tracked, handler>>
    /\ UNCHANGED <<swapResult, rejection, pollResult, notifications, others, delivery>>
    /\ UNCHANGED <<swapVars, trackVars, encVars, ordVars, opVars, concVars>>

\* "Swap failed: ..." or "Failed to execute swap: ..." is sent
FailureReplied ==
    /\ cpc \in {"reply_failed", "reply_error"}
    /\ cpc' = "done"
    /\ handler' = "returned"
    /\ UNCHANGED <<swapResult, rejection, tracked, pollResult, notifications,
                   others, delivery>>
    /\ UNCHANGED <<swapVars, trackVars, encVars, ordVars, opVars, concVars>>

\* another update reaches the bot and is handled, handleConfirm having returned
OtherCommand ==
    /\ handler = "returned"
    /\ others < MaxCommands
    /\ others' = others + 1
    /\ UNCHANGED <<cpc, swapResult, rejection, tracked, pollResult, notifications,
                   handler, delivery>>
    /\ UNCHANGED <<swapVars, trackVars, encVars, ordVars, opVars, concVars>>

NotificationForAny(outcome) == IF outcome.filled THEN "filled" ELSE "failed"

\* if (pollResult.filled) ... else if (pollResult.error && pollResult.error !== "Timeout ...")
NotificationFor(outcome) ==
    IF outcome.filled
    THEN "filled"
    ELSE IF outcome.error # "" /\ outcome.error # "Timeout waiting for order completion"
         THEN "failed"
         ELSE "none"

\* waitForOrderCompletion has returned to the background task
PollReturned ==
    /\ cpc = "polling"
    /\ \E outcome \in PollOutcomes :
          /\ pollResult' = outcome
          /\ IF NotificationFor(outcome) # "none"
             THEN /\ notifications' = Append(notifications, NotificationFor(outcome))
                  /\ cpc' = "sendMessage"
                  /\ UNCHANGED handler
             ELSE /\ cpc' = "done"
                  /\ handler' = "returned"
                  /\ UNCHANGED notifications
    /\ UNCHANGED <<swapResult, rejection, tracked, others, delivery>>
    /\ UNCHANGED <<swapVars, trackVars, encVars, ordVars, opVars, concVars>>

NotifyCaughtRetried ==
    /\ cpc' = "sendMessage"
    /\ notifications' = Append(notifications, notifications[Len(notifications)])

\* catch (notifyError) { console.error(...) }: the task ends
NotifyCaught ==
    /\ cpc' = "done"
    /\ UNCHANGED notifications

\* sendMessage returns, or throws into catch (notifyError)
MessageSent ==
    /\ cpc = "sendMessage"
    /\ delivery = "none"
    /\ \/ /\ delivery' = "delivered"
          /\ cpc' = "done"
          /\ UNCHANGED notifications
       \/ /\ delivery' = "failed"
          /\ NotifyCaught
    /\ handler' = "returned"
    /\ UNCHANGED <<swapResult, rejection, tracked, pollResult, others>>
    /\ UNCHANGED <<swapVars, trackVars, encVars, ordVars, opVars, concVars>>

ConfirmNext ==
    \/ SwapNext
    \/ SwapReturned
    \/ SubmittedReplied
    \/ UserFetched
    \/ FailureReplied
    \/ OtherCommand
    \/ PollReturned
    \/ MessageSent

SpecConfirm == ConfirmInit /\ [][ConfirmNext]_vars

(***************************************************************************)
(* SwapService.withdrawFromEscrow and SwapService.cancelOrders             *)
(*                                                                         *)
(* Both build, sign and submit one transaction inside one try block.       *)
(***************************************************************************)
OpKinds == {"withdraw", "cancel"}

\* message: `Withdrawal failed: ${e.message}` / `Cancel failed: ${e.message}`
FailedPrefix(kind) == IF kind = "withdraw" THEN "Withdrawal failed: " ELSE "Cancel failed: "

Succeeded(kind) ==
    [returned |-> TRUE, success |-> TRUE,
     message |-> IF kind = "withdraw"
                 THEN <<"Withdrawal Confirmed!">>
                 ELSE <<"Orders cancelled! Your nonce has been incremented.">>]

EscrowInit ==
    /\ SwapIdle
    /\ TrackIdle
    /\ EncIdle
    /\ OrdersIdle
    /\ ConfirmIdle
    /\ ConcIdle
    /\ okind \in OpKinds
    /\ opc = "called"
    /\ orawAmount = 0
    /\ okeySent = <<>>
    /\ ofailedAt = "nowhere"
    /\ oresult = NoResult

OpRaised(message) ==
    /\ opc' = "raised"
    /\ ofailedAt' = opc
    /\ UNCHANGED oresult

\* the catch block: the failure is returned
OpCaught(message) ==
    /\ opc' = "done"
    /\ ofailedAt' = opc
    /\ oresult' = Failure(<<FailedPrefix(okind), message>>)

OpProceeds(next) ==
    /\ opc' = next
    /\ UNCHANGED <<ofailedAt, oresult>>

\* the call: withdrawFromEscrow looks the token up, then both call getOrCreateUser
OpCalled ==
    /\ opc = "called"
    /\ \/ OpProceeds("getOrCreateUser")
       \/ /\ okind = "withdraw"
          /\ OpCaught("Invalid token symbol")
    /\ UNCHANGED <<okind, orawAmount, okeySent>>
    /\ UNCHANGED <<swapVars, trackVars, encVars, ordVars, confVars, concVars>>

\* getOrCreateUser answered; the transaction is built, for a withdrawal with
\* rawAmount = Math.floor(amount * Math.pow(10, token.decimals))
OpUser ==
    /\ opc = "getOrCreateUser"
    /\ \/ /\ OpProceeds("build")
          /\ IF okind = "withdraw"
             THEN \E units \in 1..MaxAmount, dec \in TokenDecimals :
                     orawAmount' = RawAmount(FDiv(units, Pow10(dec)), dec)
             ELSE UNCHANGED orawAmount
       \/ /\ \/ OpCaught("No server wallet found")
             \/ \E msg \in ErrorMessages : OpCaught(msg)
          /\ UNCHANGED orawAmount
    /\ UNCHANGED <<okind, okeySent>>
    /\ UNCHANGED <<swapVars, trackVars, encVars, ordVars, confVars, concVars>>

\* transaction.build.simple answered; signTransaction called
OpBuilt ==
    /\ opc = "build"
    /\ \/ OpProceeds("signTransaction")
       \/ \E msg \in ErrorMessages : OpCaught(msg)
    /\ UNCHANGED <<okind, orawAmount, okeySent>>
    /\ UNCHANGED <<swapVars, trackVars, encVars, ordVars, confVars, concVars>>

\* signTransaction answered; the wallet is fetched for its public key
OpSigned ==
    /\ opc = "signTransaction"
    /\ \/ OpProceeds("wallet_key")
       \/ OpCaught("Failed to sign transaction")
       \/ \E msg \in ErrorMessages : OpCaught(msg)
    /\ UNCHANGED <<okind, orawAmount, okeySent>>
    /\ UNCHANGED <<swapVars, trackVars, encVars, ordVars, confVars, concVars>>

\* the wallet answered: a 33-byte key is trimmed, the authenticator is built
\* and the transaction submitted; new Ed25519PublicKey (not in this
\* repository) may refuse a key that is not 32 bytes long
OpKey ==
    /\ opc = "wallet_key"
    /\ \/ \E key \in PublicKeys :
             /\ okeySent' = Trimmed(key)
             /\ OpProceeds("submit")
       \/ /\ \/ \E key \in PublicKeys :
                   /\ Len(Trimmed(key)) # KeyLength
                   /\ OpCaught("PublicKey length should be 32")
             \/ \E msg \in ErrorMessages : OpCaught(msg)
          /\ UNCHANGED okeySent
    /\ UNCHANGED <<okind, orawAmount>>
    /\ UNCHANGED <<swapVars, trackVars, encVars, ordVars, confVars, concVars>>

\* transaction.submit.simple answered; waitForTransaction called
OpSubmitted ==
    /\ opc = "submit"
    /\ \/ OpProceeds("waitForTransaction")
       \/ \E msg \in ErrorMessages : OpCaught(msg)
    /\ UNCHANGED <<okind, orawAmount, okeySent>>
    /\ UNCHANGED <<swapVars, trackVars, encVars, ordVars, confVars, concVars>>

\* waitForTransaction answered: success is returned
OpConfirmed ==
    /\ opc = "waitForTransaction"
    /\ \/ /\ opc' = "done"
          /\ oresult' = Succeeded(okind)
          /\ UNCHANGED ofailedAt
       \/ \E msg \in ErrorMessages : OpCaught(msg)
    /\ UNCHANGED <<okind, orawAmount, okeySent>>
    /\ UNCHANGED <<swapVars, trackVars, encVars, ordVars, confVars, concVars>>

EscrowNext ==
    \/ OpCalled
    \/ OpUser
    \/ OpBuilt
    \/ OpSigned
    \/ OpKey
    \/ OpSubmitted
    \/ OpConfirmed

(***************************************************************************)
(* The operations of SwapService and OrderService, one call of any of them *)
(***************************************************************************)
ServiceInit ==
    \/ SwapInit
    \/ TrackInit
    \/ OrdersInit
    \/ EscrowInit

ServiceNext ==
    \/ SwapNext
    \/ TrackNext
    \/ OrdersNext
    \/ EscrowNext

SpecService == ServiceInit /\ [][ServiceNext]_vars

(***************************************************************************)
(* FaucetService (src/services/OrderService.ts): claims of one Telegram ID *)
(*                                                                         *)
(* claimHistory is read by canClaim when claimTokens is called and written *)
(* after waitForTransaction; the calls in between are awaited, so several  *)
(* claimTokens calls can be in flight.                                     *)
(***************************************************************************)
COOLDOWN_MS == 24 * 60 * 60 * 1000
MAX_CLAIMS_PER_PERIOD == 3

\* the claimTokens calls made for the ID, and the step of the clock
FaucetCalls == 1..(MAX_CLAIMS_PER_PERIOD + 1)
HalfDay == COOLDOWN_MS \div 2

\* claimHistory.get(telegramId) is undefined
NoClaims == [count |-> 0, firstClaimTime |-> -1]

FaucetInit ==
    /\ SwapIdle
    /\ TrackIdle
    /\ EncIdle
    /\ OrdersIdle
    /\ ConfirmIdle
    /\ EscrowIdle
    /\ RaceIdle
    /\ LateIdle
    /\ fpc = [p \in FaucetCalls |-> "uncalled"]
    /\ claimHistory = NoClaims
    /\ fclock = 0
    /\ grants = <<>>

\* canClaim: what it leaves in claimHistory
HistoryAfterCheck(info, clock) ==
    IF info # NoClaims /\ clock - info.firstClaimTime >= COOLDOWN_MS THEN NoClaims ELSE info

\* canClaim(telegramId).allowed
canClaim(info, clock) ==
    \/ info = NoClaims
    \/ clock - info.firstClaimTime >= COOLDOWN_MS
    \/ info.count < MAX_CLAIMS_PER_PERIOD

\* claimTokens is called: the rate limit is checked, then getFaucetBalance awaited
ClaimCalled(p) ==
    /\ fpc[p] = "uncalled"
    /\ claimHistory' = HistoryAfterCheck(claimHistory, fclock)
    /\ fpc' = [fpc EXCEPT ![p] = IF canClaim(claimHistory, fclock)
                                 THEN "getFaucetBalance"
                                 ELSE "denied"]
    /\ UNCHANGED <<fclock, grants>>
    /\ UNCHANGED <<swapVars, trackVars, encVars, ordVars, confVars, opVars, raceVars, lateVars>>

\* an awaited call answers (the next is issued), throws, or the faucet is empty
ClaimProceeds(p, at, next) ==
    /\ fpc[p] = at
    /\ \/ fpc' = [fpc EXCEPT ![p] = next]
       \/ fpc' = [fpc EXCEPT ![p] = "failed"]
    /\ UNCHANGED <<claimHistory, fclock, grants>>
    /\ UNCHANGED <<swapVars, trackVars, encVars, ordVars, confVars, opVars, raceVars, lateVars>>

FaucetBalanceRead(p) == ClaimProceeds(p, "getFaucetBalance", "build")

TransferBuilt(p) == ClaimProceeds(p, "build", "signAndSubmit")

TransferSubmitted(p) == ClaimProceeds(p, "signAndSubmit", "waitForTransaction")

\* Record claim
Recorded(info, clock) ==
    IF info # NoClaims
    THEN [count |-> info.count + 1, firstClaimTime |-> info.firstClaimTime]
    ELSE [count |-> 1, firstClaimTime |-> clock]

\* waitForTransaction answers: the claim is recorded and success returned, or it throws
TransferConfirmed(p) ==
    /\ fpc[p] = "waitForTransaction"
    /\ \/ /\ fpc' = [fpc EXCEPT ![p] = "granted"]
          /\ claimHistory' = Recorded(claimHistory, fclock)
          /\ grants' = Append(grants, fclock)
       \/ /\ fpc' = [fpc EXCEPT ![p] = "failed"]
          /\ UNCHANGED <<claimHistory, grants>>
    /\ UNCHANGED fclock
    /\ UNCHANGED <<swapVars, trackVars, encVars, ordVars, confVars, opVars, raceVars, lateVars>>

\* time passes
HalfDayPassed ==
    /\ fclock < MaxHalfDays * HalfDay
    /\ fclock' = fclock + HalfDay
    /\ UNCHANGED <<fpc, claimHistory, grants>>
    /\ UNCHANGED <<swapVars, trackVars, encVars, ordVars, confVars, opVars, raceVars, lateVars>>

FaucetNext ==
    \/ \E p \in FaucetCalls : ClaimCalled(p)
    \/ \E p \in FaucetCalls : FaucetBalanceRead(p)
    \/ \E p \in FaucetCalls : TransferBuilt(p)
    \/ \E p \in FaucetCalls : TransferSubmitted(p)
    \/ \E p \in FaucetCalls : TransferConfirmed(p)
    \/ HalfDayPassed

SpecFaucet == FaucetInit /\ [][FaucetNext]_vars

(***************************************************************************)
(* Two executeSwap calls of one maker for one sell token, from the escrow  *)
(* balance view on.  Each call keeps what it read in its own locals; the   *)
(* escrow balance and the nonce live on chain.                             *)
(***************************************************************************)
Calls == {1, 2}
RaceDecimals == 8

\* nonce = Date.now().toString(), the fallback
TimestampNonce == 2000500

\* the intent was created with no nonce yet
NoNonce == -1

RaceInit ==
    /\ SwapIdle
    /\ TrackIdle
    /\ EncIdle
    /\ OrdersIdle
    /\ ConfirmIdle
    /\ EscrowIdle
    /\ FaucetIdle
    /\ LateIdle
    /\ rpc = [c \in Calls |-> "balance_view"]
    /\ rneed \in [Calls -> 1..MaxAmount]
    /\ rbal = [c \in Calls |-> 0]
    /\ rdep = [c \in Calls |-> -1]
    /\ rnonce = [c \in Calls |-> NoNonce]
    /\ rres = [c \in Calls |-> "none"]
    /\ chainEscrow \in {0, 1}
    /\ chainNonce \in ChainNonces
    /\ posted = <<>>

\* a call runs whenever the call it awaits answers: executeSwap takes no lock
MayProceedSerialized(c) == \A d \in Calls : d < c => rpc[d] = "done"

MayProceed(c) == TRUE

RaceReturn(c, outcome) ==
    /\ rpc' = [rpc EXCEPT ![c] = "done"]
    /\ rres' = [rres EXCEPT ![c] = outcome]

\* 3.-4. the balance view answers or throws (balance 0); the deposit is
\* started if (currentEscrowBal < sellAmountAtomic), else the nonce view
RaceBalanceViewed(c) ==
    /\ rpc[c] = "balance_view"
    /\ MayProceed(c)
    /\ \E seen \in {chainEscrow, 0} :
          /\ rbal' = [rbal EXCEPT ![c] = seen]
          /\ rpc' = [rpc EXCEPT ![c] = IF NeedsDeposit(seen, rneed[c])
                                        THEN "deposit"
                                        ELSE "get_nonce"]
    /\ UNCHANGED <<rneed, rdep, rnonce, rres, chainEscrow, chainNonce, posted>>
    /\ UNCHANGED <<swapVars, trackVars, encVars, ordVars, confVars, opVars, faucetVars, lateVars>>

\* depositNeeded = (sellAmountAtomic - currentEscrowBal) / Math.pow(10, decimals)
\* and rawAmount = Math.floor(amount * Math.pow(10, decimals)), for each
\* sellAmountAtomic and each smaller currentEscrowBal
Shortfalls ==
    [need \in 1..MaxAmount |->
        [bal \in 0..(need - 1) |->
            RawAmount(DepositNeeded(need, bal, RaceDecimals), RaceDecimals)]]

\* the raw amount of the deposit a call makes
DepositOfFresh(c) == IF chainEscrow >= rneed[c] THEN 0 ELSE Shortfalls[rneed[c]][chainEscrow]

DepositOf(c) == Shortfalls[rneed[c]][rbal[c]]

\* depositToEscrow: the deposit is built, signed, submitted and confirmed,
\* or one of these fails and the call returns a failure
RaceDeposited(c) ==
    /\ rpc[c] = "deposit"
    /\ MayProceed(c)
    /\ \/ /\ rdep' = [rdep EXCEPT ![c] = DepositOf(c)]
          /\ chainEscrow' = chainEscrow + DepositOf(c)
          /\ rpc' = [rpc EXCEPT ![c] = "get_nonce"]
          /\ UNCHANGED rres
       \/ /\ RaceReturn(c, "failure")
          /\ UNCHANGED <<rdep, chainEscrow>>
    /\ UNCHANGED <<rneed, rbal, rnonce, chainNonce, posted>>
    /\ UNCHANGED <<swapVars, trackVars, encVars, ordVars, confVars, opVars, faucetVars, lateVars>>

\* 5.-7. the nonce view answers or throws (timestamp); signMessage is issued
RaceNonceViewed(c) ==
    /\ rpc[c] = "get_nonce"
    /\ MayProceed(c)
    /\ \E seen \in {chainNonce, TimestampNonce} :
          rnonce' = [rnonce EXCEPT ![c] = seen]
    /\ rpc' = [rpc EXCEPT ![c] = "signMessage"]
    /\ UNCHANGED <<rneed, rbal, rdep, rres, chainEscrow, chainNonce, posted>>
    /\ UNCHANGED <<swapVars, trackVars, encVars, ordVars, confVars, opVars, faucetVars, lateVars>>

\* 7.-9. signMessage answers and the intent is POSTed, or it throws
RaceSigned(c) ==
    /\ rpc[c] = "signMessage"
    /\ MayProceed(c)
    /\ \/ /\ rpc' = [rpc EXCEPT ![c] = "post"]
          /\ posted' = Append(posted, [call |-> c, nonce |-> rnonce[c]])
          /\ UNCHANGED rres
       \/ /\ RaceReturn(c, "failure")
          /\ UNCHANGED posted
    /\ UNCHANGED <<rneed, rbal, rdep, rnonce, chainEscrow, chainNonce>>
    /\ UNCHANGED <<swapVars, trackVars, encVars, ordVars, confVars, opVars, faucetVars, lateVars>>

\* 9. the relayer accepts the intent, or answers with an error
RacePosted(c) ==
    /\ rpc[c] = "post"
    /\ MayProceed(c)
    /\ \/ RaceReturn(c, "success")
       \/ RaceReturn(c, "failure")
    /\ UNCHANGED <<rneed, rbal, rdep, rnonce, chainEscrow, chainNonce, posted>>
    /\ UNCHANGED <<swapVars, trackVars, encVars, ordVars, confVars, opVars, faucetVars, lateVars>>

\* the chain: an intent carrying the maker's current nonce is settled
ChainSettled ==
    /\ \E i \in 1..Len(posted) : posted[i].nonce = chainNonce
    /\ chainNonce' = chainNonce + 1
    /\ UNCHANGED <<rpc, rneed, rbal, rdep, rnonce, rres, chainEscrow, posted>>
    /\ UNCHANGED <<swapVars, trackVars, encVars, ordVars, confVars, opVars, faucetVars, lateVars>>

RaceNext ==
    \/ \E c \in Calls : RaceBalanceViewed(c)
    \/ \E c \in Calls : RaceDeposited(c)
    \/ \E c \in Calls : RaceNonceViewed(c)
    \/ \E c \in Calls : RaceSigned(c)
    \/ \E c \in Calls : RacePosted(c)
    \/ ChainSettled

SpecRace == RaceInit /\ [][RaceNext]_vars

(***************************************************************************)
(* /swap and /confirm (BotCommands.handleSwap, handleConfirm) over the     *)
(* module-level map pendingQuotes.  Telegraf starts a handler for every    *)
(* update it receives; a handler runs until its next await.                *)
(***************************************************************************)
QuotesInit ==
    /\ EarlyIdle
    /\ QuotesIdle
    /\ MonitorIdle
    /\ PrivyIdle
    /\ CancelIdle

(* pendingQuotes.delete(ctx.from.id.toString()) *)
Deleted(u) == [pendingQuotes EXCEPT ![u] = NoQuote]

(* /swap: pendingQuotes.set(ctx.from.id.toString(), quote) with a fresh quote *)
QuoteStored(u) ==
    /\ quoted < MaxQuotes
    /\ quoted' = quoted + 1
    /\ pendingQuotes' = [pendingQuotes EXCEPT ![u] = quoted + 1]
    /\ UNCHANGED <<confirms, executions>>
    /\ UNCHANGED <<earlyVars, monVars, privyVars, cancelVars>>

(* /confirm: the quote is read; none: the "No pending swap" reply; else "Executing swap..." *)
ConfirmReceived(u) ==
    /\ Len(confirms) < MaxConfirms
    /\ confirms' = Append(confirms,
           [user |-> u, quote |-> pendingQuotes[u], call |-> 0,
            pc |-> IF pendingQuotes[u] = NoQuote THEN "done" ELSE "reply"])
    /\ UNCHANGED <<pendingQuotes, executions, quoted>>
    /\ UNCHANGED <<earlyVars, monVars, privyVars, cancelVars>>

(* the reply is sent (or throws, outside the try): executeSwap is called with the quote read *)
Announced(i) ==
    /\ confirms[i].pc = "reply"
    /\ \/ /\ confirms' = [confirms EXCEPT ![i].pc = "executeSwap",
                                           ![i].call = Len(executions) + 1]
          /\ executions' = Append(executions, [quote |-> confirms[i].quote, submitted |-> FALSE])
       \/ /\ confirms' = [confirms EXCEPT ![i].pc = "done"]
          /\ UNCHANGED executions
    /\ UNCHANGED <<pendingQuotes, quoted>>
    /\ UNCHANGED <<earlyVars, monVars, privyVars, cancelVars>>

(* executeSwap returns, with the order submitted or not: the user's entry is deleted *)
Executed(i) ==
    /\ confirms[i].pc = "executeSwap"
    /\ confirms' = [confirms EXCEPT ![i].pc = "done"]
    /\ pendingQuotes' = Deleted(confirms[i].user)
    /\ \E success \in BOOLEAN :
          executions' = [executions EXCEPT ![confirms[i].call].submitted = success]
    /\ UNCHANGED quoted
    /\ UNCHANGED <<earlyVars, monVars, privyVars, cancelVars>>

QuotesNext ==
    \/ \E u \in Users : QuoteStored(u)
    \/ \E u \in Users : ConfirmReceived(u)
    \/ \E i \in 1..Len(confirms) : Announced(i)
    \/ \E i \in 1..Len(confirms) : Executed(i)

SpecQuotes == QuotesInit /\ [][QuotesNext]_vars

(***************************************************************************)
(* ActivityMonitor: subscribe, unsubscribe, start, stop and the            *)
(* checkActivity runs its timers start.  A run keeps going until its next  *)
(* await; nothing keeps a timer from starting a run while another waits.   *)
(***************************************************************************)
Empty == "empty"

(* response.data.orders, newest first; s0 is older than 60 minutes *)
MonitorFeeds == {<<>>, <<"s1">>, <<"s2", "s1">>, <<"s2", "s1", "s0">>}

Old(hash) == hash = "s0"

(* subscribedChatIds.size *)
Size(entries) == Cardinality({i \in 1..Len(entries) : entries[i] # Empty})

(* Set.prototype.add: a new entry at the end unless the value is present *)
Added(entries, c) ==
    IF \E i \in 1..Len(entries) : entries[i] = c THEN entries ELSE Append(entries, c)

(* Set.prototype.delete: the entry is emptied *)
Removed(entries, c) == [i \in 1..Len(entries) |-> IF entries[i] = c THEN Empty ELSE entries[i]]

(* the Set iterator: the next entry after position at that is not empty, 0 if none *)
NextEntry(entries, at) ==
    LET later == {j \in (at + 1)..Len(entries) : entries[j] # Empty}
    IN  IF later = {} THEN 0 ELSE CHOOSE j \in later : \A l \in later : j <= l

(* start() without if (this.interval) return *)
MonitorStartUnguarded(iv, ts, n) ==
    [interval |-> n + 1, timers |-> ts \cup {n + 1}, started |-> n + 1]

(* start(): if (this.interval) return; this.interval = setInterval(...) *)
MonitorStart(iv, ts, n) ==
    IF iv # NoTimer THEN [interval |-> iv, timers |-> ts, started |-> n]
    ELSE [interval |-> n + 1, timers |-> ts \cup {n + 1}, started |-> n + 1]

(* stop(): if (this.interval) { clearInterval(this.interval); this.interval = null } *)
MonitorStop(iv, ts, n) ==
    IF iv # NoTimer THEN [interval |-> NoTimer, timers |-> ts \ {iv}, started |-> n]
    ELSE [interval |-> iv, timers |-> ts, started |-> n]

Timer(t) ==
    /\ interval' = t.interval
    /\ timers' = t.timers
    /\ started' = t.started

MonitorCalled(name) ==
    /\ monitorCalls < MaxMonitorCalls
    /\ monitorCalls' = monitorCalls + 1
    /\ lastCall' = name
    /\ UNCHANGED <<processedHashes, runs, delivered>>
    /\ UNCHANGED <<earlyVars, quoteVars, privyVars, cancelVars>>

MonitorInit ==
    /\ EarlyIdle
    /\ QuotesIdle
    /\ MonitorIdle
    /\ PrivyIdle
    /\ CancelIdle

(* subscribe(chatId) *)
Subscribed(c) ==
    /\ MonitorCalled("subscribe")
    /\ subscribedChatIds' = Added(subscribedChatIds, c)
    /\ Timer(IF interval = NoTimer THEN MonitorStart(interval, timers, started)
             ELSE [interval |-> interval, timers |-> timers, started |-> started])

(* unsubscribe(chatId) *)
Unsubscribed(c) ==
    /\ MonitorCalled(lastCall)
    /\ subscribedChatIds' = Removed(subscribedChatIds, c)
    /\ UNCHANGED <<interval, timers, started>>

(* start() *)
StartCalled ==
    /\ MonitorCalled("start")
    /\ Timer(MonitorStart(interval, timers, started))
    /\ UNCHANGED subscribedChatIds

(* stop() *)
StopCalled ==
    /\ MonitorCalled("stop")
    /\ Timer(MonitorStop(interval, timers, started))
    /\ UNCHANGED subscribedChatIds

RunDone == [pc |-> "done", newSwaps |-> <<>>, k |-> 0, at |-> 0, to |-> Empty]

(* newSwaps: orders.filter(o => o.hash && !processedHashes.has(o.hash)), reversed *)
NewSwaps(orders, processed) ==
    LET keep == {i \in 1..Len(orders) : orders[i] \notin processed}
        pos(n) == CHOOSE i \in keep : Cardinality({j \in keep : j >= i}) = n
    IN  [n \in 1..Cardinality(keep) |-> orders[pos(n)]]

(* the two for loops from swap k, entry at on, up to the next sendMessage awaited: *)
(* the run by then and processedHashes by then                                    *)
RECURSIVE Loops(_, _, _, _)
Loops(newSwaps, k, at, processed) ==
    LET j == IF k = 0 THEN 0 ELSE NextEntry(subscribedChatIds, at)
    IN  IF j # 0
        THEN [run |-> [pc |-> "send", newSwaps |-> newSwaps, k |-> k, at |-> j,
                       to |-> subscribedChatIds[j]],
              processed |-> processed]
        ELSE IF k >= Len(newSwaps)
             THEN [run |-> RunDone, processed |-> processed]
             ELSE Loops(newSwaps, k + 1,
                        IF Old(newSwaps[k + 1]) THEN Len(subscribedChatIds) ELSE 0,
                        processed \cup {newSwaps[k + 1]})

(* a timer fires: checkActivity() up to its first await *)
Tick ==
    /\ timers # {}
    /\ Len(runs) < MaxRuns
    /\ runs' = Append(runs,
                      IF Size(subscribedChatIds) = 0 THEN RunDone
                      ELSE [RunDone EXCEPT !.pc = "get"])
    /\ UNCHANGED <<interval, timers, started, subscribedChatIds, processedHashes, delivered,
                   lastCall, monitorCalls>>
    /\ UNCHANGED <<earlyVars, quoteVars, privyVars, cancelVars>>

(* GET /activity answers or fails *)
Fetched(r) ==
    /\ runs[r].pc = "get"
    /\ \/ \E orders \in MonitorFeeds :
             LET next == Loops(NewSwaps(orders, processedHashes), 0, 0, processedHashes)
             IN  /\ runs' = [runs EXCEPT ![r] = next.run]
                 /\ processedHashes' = next.processed
       \/ /\ runs' = [runs EXCEPT ![r] = RunDone]
          /\ UNCHANGED processedHashes
    /\ UNCHANGED <<interval, timers, started, subscribedChatIds, delivered, lastCall,
                   monitorCalls>>
    /\ UNCHANGED <<earlyVars, quoteVars, privyVars, cancelVars>>

(* sendMessage resolves or throws (caught): the loops go on *)
MessageResolved(r) ==
    /\ runs[r].pc = "send"
    /\ \E ok \in BOOLEAN :
          LET m == <<runs[r].to, runs[r].newSwaps[runs[r].k]>>
          IN  delivered' = IF ok THEN [delivered EXCEPT ![m] = @ + 1] ELSE delivered
    /\ LET next == Loops(runs[r].newSwaps, runs[r].k, runs[r].at, processedHashes)
       IN  /\ runs' = [runs EXCEPT ![r] = next.run]
           /\ processedHashes' = next.processed
    /\ UNCHANGED <<interval, timers, started, subscribedChatIds, lastCall, monitorCalls>>
    /\ UNCHANGED <<earlyVars, quoteVars, privyVars, cancelVars>>

MonitorNext ==
    \/ \E c \in Chats : Subscribed(c)
    \/ \E c \in Chats : Unsubscribed(c)
    \/ StartCalled
    \/ StopCalled
    \/ Tick
    \/ \E r \in 1..Len(runs) : Fetched(r)
    \/ \E r \in 1..Len(runs) : MessageResolved(r)

SpecMonitor == MonitorInit /\ [][MonitorNext]_vars

(***************************************************************************)
(* PrivyService.getOrCreateUser, resetWallet and ensureServerWallet, with  *)
(* the Privy application behind them.  Calls overlap at their awaits.      *)
(* Privy may accept or refuse any request.                                 *)
(***************************************************************************)
NoWallet == 0
NoUser == 0

(* the Telegram ID of the user, and String(Date.now()) as depositToEscrow passes it *)
Requester == "t1"
Timestamp == "Date.now()"

(* who calls getOrCreateUser: a command handler, resetWallet (forceNewWallet), *)
(* executeSwap step 1, depositToEscrow step 4                                  *)
Callers ==
    {[by |-> "command", tid |-> Requester, force |-> FALSE],
     [by |-> "resetWallet", tid |-> Requester, force |-> TRUE],
     [by |-> "executeSwap", tid |-> Requester, force |-> FALSE],
     [by |-> "depositToEscrow", tid |-> Timestamp, force |-> FALSE]}

(* error.status === 404 || message includes 'not found' || message includes '404' *)
ErrorKinds == {"not found", "other"}

(* the application before the calls: no user, or the user with a server wallet *)
(* that is linked to the account or named in the custom metadata               *)
PrivyStates ==
    {[users |-> <<>>, wallets |-> 0],
     [users |-> <<[tid |-> Requester, meta |-> 1, linked |-> NoWallet]>>, wallets |-> 1],
     [users |-> <<[tid |-> Requester, meta |-> NoWallet, linked |-> 1]>>, wallets |-> 1]}

PrivyInit ==
    /\ EarlyIdle
    /\ QuotesIdle
    /\ MonitorIdle
    /\ \E app \in PrivyStates :
          /\ privyUsers = app.users
          /\ walletCount = app.wallets
    /\ pcalls = <<>>
    /\ creations = <<>>
    /\ CancelIdle

Step(i, call) ==
    /\ pcalls' = [pcalls EXCEPT ![i] = call]
    /\ UNCHANGED <<earlyVars, quoteVars, monVars, cancelVars>>

(* return { user, wallet } *)
Returned(i, wallet) == Step(i, [pcalls[i] EXCEPT !.pc = "returned", !.wallet = wallet])

(* the catch blocks of getOrCreateUser: an error out of the inner try that looks *)
(* like not-found starts users().create; any other error is rethrown             *)
Raised(i, kind) ==
    IF pcalls[i].inTry /\ kind = "not found"
    THEN /\ Step(i, [pcalls[i] EXCEPT !.pc = "create", !.inTry = FALSE])
         /\ creations' = Append(creations,
                [tid |-> pcalls[i].tid,
                 lookup |-> IF pcalls[i].user = NoUser THEN "not found" ELSE "found"])
    ELSE /\ Step(i, [pcalls[i] EXCEPT !.pc = "threw"])
         /\ UNCHANGED creations

(* getOrCreateUser(telegramId, username, forceNewWallet) is called *)
GetOrCreateUser(c) ==
    /\ Len(pcalls) < MaxPrivyCalls
    /\ c.by = "depositToEscrow" =>
          \E i \in 1..Len(pcalls) : pcalls[i].by = "executeSwap" /\ pcalls[i].pc = "returned"
    /\ pcalls' = Append(pcalls,
          [by |-> c.by, tid |-> c.tid, force |-> c.force, pc |-> "lookup", inTry |-> TRUE,
           user |-> NoUser, stored |-> NoWallet, wallet |-> NoWallet])
    /\ UNCHANGED <<privyUsers, walletCount, creations>>
    /\ UNCHANGED <<earlyVars, quoteVars, monVars, cancelVars>>

(* users().getByTelegramUserID answers: a user, not found, or another error *)
LookedUp(i) ==
    /\ pcalls[i].pc = "lookup"
    /\ \/ /\ \E u \in 1..Len(privyUsers) :
                /\ privyUsers[u].tid = pcalls[i].tid
                /\ Step(i, [pcalls[i] EXCEPT !.pc = "get", !.user = u])
          /\ UNCHANGED creations
       \/ /\ \A u \in 1..Len(privyUsers) : privyUsers[u].tid # pcalls[i].tid
          /\ Raised(i, "not found")
       \/ Raised(i, "other")
    /\ UNCHANGED <<privyUsers, walletCount>>

(* users().create answers; ensureServerWallet(newUser.id, telegramId, true) *)
UserCreated(i) ==
    /\ pcalls[i].pc = "create"
    /\ \/ /\ privyUsers' = Append(privyUsers,
                  [tid |-> pcalls[i].tid, meta |-> NoWallet, linked |-> NoWallet])
          /\ Step(i, [pcalls[i] EXCEPT !.pc = "get", !.user = Len(privyUsers) + 1,
                                        !.force = TRUE])
       \/ /\ Step(i, [pcalls[i] EXCEPT !.pc = "threw"])
          /\ UNCHANGED privyUsers
    /\ UNCHANGED <<walletCount, creations>>

(* ensureServerWallet: users()._get answers; linked wallet, metadata, or a new wallet *)
UserRead(i) ==
    /\ pcalls[i].pc = "get"
    /\ \/ LET user == privyUsers[pcalls[i].user]
          IN  /\ IF ~pcalls[i].force /\ user.linked # NoWallet
                 THEN Returned(i, user.linked)
                 ELSE IF ~pcalls[i].force /\ user.meta # NoWallet
                      THEN Step(i, [pcalls[i] EXCEPT !.pc = "wallet_get", !.stored = user.meta])
                      ELSE Step(i, [pcalls[i] EXCEPT !.pc = "wallet_create"])
              /\ UNCHANGED creations
       \/ \E kind \in ErrorKinds : Raised(i, kind)
    /\ UNCHANGED <<privyUsers, walletCount>>

(* wallets().get(customMeta.server_wallet_id) answers or fails (caught) *)
WalletRead(i) ==
    /\ pcalls[i].pc = "wallet_get"
    /\ \/ Returned(i, pcalls[i].stored)
       \/ Step(i, [pcalls[i] EXCEPT !.pc = "wallet_create"])
    /\ UNCHANGED <<privyUsers, walletCount, creations>>

(* wallets().create answers, or fails and pregenerateWallets is called *)
WalletCreated(i) ==
    /\ pcalls[i].pc = "wallet_create"
    /\ \/ /\ walletCount' = walletCount + 1
          /\ Step(i, [pcalls[i] EXCEPT !.pc = "set_metadata", !.wallet = walletCount + 1])
       \/ /\ Step(i, [pcalls[i] EXCEPT !.pc = "pregenerate"])
          /\ UNCHANGED walletCount
    /\ UNCHANGED <<privyUsers, creations>>

(* users().setCustomMetadata answers or fails (non-critical): the wallet is returned *)
MetadataStored(i) ==
    /\ pcalls[i].pc = "set_metadata"
    /\ \/ privyUsers' = [privyUsers EXCEPT ![pcalls[i].user].meta = pcalls[i].wallet]
       \/ UNCHANGED privyUsers
    /\ Returned(i, pcalls[i].wallet)
    /\ UNCHANGED <<walletCount, creations>>

(* users().pregenerateWallets answers: an embedded wallet, none, or an error *)
Pregenerated(i) ==
    /\ pcalls[i].pc = "pregenerate"
    /\ \/ /\ walletCount' = walletCount + 1
          /\ Returned(i, walletCount + 1)
          /\ UNCHANGED creations
       \/ /\ \E kind \in ErrorKinds : Raised(i, kind)
          /\ UNCHANGED walletCount
    /\ UNCHANGED privyUsers

PrivyNext ==
    \/ \E c \in Callers : GetOrCreateUser(c)
    \/ \E i \in 1..Len(pcalls) : LookedUp(i)
    \/ \E i \in 1..Len(pcalls) : UserCreated(i)
    \/ \E i \in 1..Len(pcalls) : UserRead(i)
    \/ \E i \in 1..Len(pcalls) : WalletRead(i)
    \/ \E i \in 1..Len(pcalls) : WalletCreated(i)
    \/ \E i \in 1..Len(pcalls) : MetadataStored(i)
    \/ \E i \in 1..Len(pcalls) : Pregenerated(i)

SpecPrivy == PrivyInit /\ [][PrivyNext]_vars

(***************************************************************************)
(* BotCommands.handleCancel (src/bot/commands.ts), from its call of        *)
(* orderService.getOrders(wallet.address) on.  getOrders is the one above. *)
(***************************************************************************)

\* the relayer's feeds when /cancel arrives: the maker's pending orders are older
\* than the activity entries
CancelOrders ==
    {[i \in 1..n |-> [id |-> <<"order", i>>, maker |-> MakerAt(m, i),
                      timestamp |-> StampAt("rising", 1)]] :
        n \in 0..MaxCancelPending, m \in MakerPatterns}

CancelActivities ==
    {[i \in 1..n |-> [hash |-> <<"tx", i>>, maker |-> MakerAt(m, i),
                      success |-> SuccessAt(p, i), timestamp |-> StampAt("same", i)]] :
        n \in 0..MaxCancelActivity, m \in MakerPatterns \ {"mixed"}, p \in {"all", "mixed"}}

CancelInit ==
    /\ SwapIdle
    /\ TrackIdle
    /\ EncIdle
    /\ ConfirmIdle
    /\ EscrowIdle
    /\ FaucetIdle
    /\ RaceIdle
    /\ QuotesIdle
    /\ MonitorIdle
    /\ PrivyIdle
    /\ gpc = "orders"
    /\ relayerOrders \in CancelOrders
    /\ relayerActivity \in CancelActivities
    /\ pendingOrders = <<>>
    /\ requestFailed = FALSE
    /\ gresult = NoOrders
    /\ kpc = "getOrders"
    /\ cancelResult = "none"

\* orders.filter(o => o.status === status)
WithStatus(orders, status) == {i \in 1..Len(orders) : orders[i].status = status}

\* pendingOrders.length === 0
NothingPending(orders) == WithStatus(orders, "PENDING") = {}

\* getOrders returned: reply that nothing is pending, or proceed with cancellation
CancelChecked ==
    /\ kpc = "getOrders"
    /\ gpc = "done"
    /\ kpc' = IF NothingPending(gresult.orders)
              THEN IF WithStatus(gresult.orders, "FILLED") # {} THEN "filled" ELSE "nothing"
              ELSE "cancelOrders"
    /\ UNCHANGED cancelResult
    /\ UNCHANGED <<earlyVars, faucetVars, raceVars, quoteVars, monVars, privyVars>>

\* swapService.cancelOrders returned: the transaction was submitted, or a step
\* before it threw and the catch returned success: false
CancelReturned ==
    /\ kpc = "cancelOrders"
    /\ \E answer \in {"submitted", "failed"} : cancelResult' = answer
    /\ kpc' = "replied"
    /\ UNCHANGED <<earlyVars, faucetVars, raceVars, quoteVars, monVars, privyVars>>

CancelNext ==
    \/ PendingFetched
    \/ ActivityListed
    \/ CancelChecked
    \/ CancelReturned

SpecCancel == CancelInit /\ [][CancelNext]_vars

(***************************************************************************)
(* Escrow reconciliation and signing in executeSwap                        *)
(***************************************************************************)

(* C1: when the escrow balance view returns a value that is at least the   *)
(* required sell amount, executeSwap builds, signs and submits no deposit  *)
(* transaction.                                                            *)
C1_NoDepositWhenFunded ==
    (balanceView = "ok" /\ currentEscrowBal >= sellAmountAtomic) =>
        /\ deposits = <<>>
        /\ calls["build"] = 0
        /\ calls["signTransaction"] = 0
        /\ calls["submit"] = 0

C1_Funded == pc = "done" /\ balanceView = "ok" /\ currentEscrowBal >= sellAmountAtomic
             /\ sellAmountAtomic > 0 /\ result.success

(* C2: when the balance read is below the required sell amount, exactly    *)
(* one deposit transaction is issued and its raw amount is exactly         *)
(* required - balance.                                                     *)
C2_DepositIsExactShortfall ==
    (balanceView # "pending" /\ currentEscrowBal < sellAmountAtomic) =>
        /\ calls["build"] = 1
        /\ deposits = <<sellAmountAtomic - currentEscrowBal>>

(* C3: when the balance view fails, the balance counts as 0, the swap      *)
(* goes on and a deposit for the full required sell amount is issued.      *)
C3_ViewFailureDepositsAll ==
    (balanceView = "failed" /\ sellAmountAtomic > 0) =>
        /\ currentEscrowBal = 0
        /\ pc # "view_balance"
        /\ deposits = <<sellAmountAtomic>>

(* C4: after a shortfall the nonce is fetched, the intent signed and the   *)
(* relayer POSTed only once the deposit is confirmed successful; a deposit *)
(* that throws or is confirmed unsuccessful ends the call with a failure   *)
(* and without any nonce fetch, intent signature or POST.                  *)
C4_DepositBeforeIntent ==
    /\ (deposits # <<>> /\ calls["get_nonce"] + calls["signMessage"] + calls["post"] > 0)
          => depositOutcome = "confirmed"
    /\ depositOutcome \in {"threw", "reverted"} =>
          /\ pc = "done"
          /\ result.returned
          /\ ~result.success
          /\ calls["get_nonce"] = 0
          /\ calls["signMessage"] = 0
          /\ calls["post"] = 0

C4_PostedAfterDeposit == deposits # <<>> /\ calls["post"] = 1 /\ result.success

(* C5: when signMessage throws, executeSwap calls the oracle no second     *)
(* time, POSTs nothing and returns a failure carrying the oracle's error   *)
(* message.                                                                *)
C5_OracleFailureIsTerminal ==
    oracleError # NoError =>
        /\ pc = "done"
        /\ calls["signMessage"] = 1
        /\ calls["post"] = 0
        /\ result.returned
        /\ ~result.success
        /\ oracleError # "" => result.message = <<oracleError>>

C5_OracleFailed == oracleError = "rpc error" /\ pc = "done"

(***************************************************************************)
(* Settlement polling in waitForOrderCompletion                            *)
(***************************************************************************)
FirstOf(hits) == IF hits = {} THEN 0 ELSE CHOOSE i \in hits : \A j \in hits : i <= j

Recent(a) == lastFeedAt - a.timestamp < 2 * timeoutMs

SameMaker(a) == Lower(a.maker) = Lower(MakerAddress)

(* the first entry of the feed just fetched that counts as the intent's    *)
(* resolution: hash equal, or maker equal and timestamp recent             *)
Counted == FirstOf({i \in 1..Len(lastFeed) :
                      lastFeed[i].hash = IntentHash \/ (SameMaker(lastFeed[i]) /\ Recent(lastFeed[i]))})

(* the first entry of the feed just fetched that the poll finds: maker     *)
(* equal, and hash equal or timestamp recent                               *)
Found == FirstOf({i \in 1..Len(lastFeed) :
                    SameMaker(lastFeed[i]) /\ (lastFeed[i].hash = IntentHash \/ Recent(lastFeed[i]))})

(* C6: an entry whose hash is the intent hash, or whose maker is the given *)
(* maker and whose timestamp is recent, resolves the intent; marked        *)
(* successful, the call returns FILLED with that entry's hash.             *)
C6_HashOrRecentMakerFills ==
    (Counted # 0 /\ lastFeed[Counted].success) =>
        /\ tpc = "done"
        /\ tresult = Filled(lastFeed[Counted].hash)

(* C7: a poll that finds the intent's entry marked unsuccessful returns    *)
(* FAILED on that poll, with an error other than the timeout message,      *)
(* before any further relayer request or sleep.                            *)
C7_FailureReturnsAtOnce ==
    (Found # 0 /\ ~lastFeed[Found].success) =>
        /\ tpc = "done"
        /\ tresult.returned
        /\ ~tresult.filled
        /\ tresult.error \notin {"", TimedOut.error}
        /\ iterGets = 1
        /\ sleeps = polls - 1

C7_FailedOnLaterPoll == Found # 0 /\ ~lastFeed[Found].success /\ tpc = "done" /\ polls >= 2

(* C8: the timeout outcome is returned at an elapsed time t with           *)
(* timeoutMs <= t <= timeoutMs + pollIntervalMs.                           *)
C8_TimeoutWithinOneInterval ==
    tresult = TimedOut =>
        /\ timeoutMs <= Elapsed
        /\ Elapsed <= timeoutMs + pollIntervalMs

(* C8 (amended): the timeout outcome is returned at an elapsed time t with *)
(* t >= timeoutMs, after a last iteration that began before timeoutMs and  *)
(* lasted pollIntervalMs plus the time of its relayer requests.            *)
C8_TimeoutWithinLastIteration ==
    tresult = TimedOut =>
        /\ timeoutMs <= Elapsed
        /\ iterStart < timeoutMs
        /\ Elapsed = iterStart + iterNet + pollIntervalMs

C8_TimedOutAfterPolls == tresult = TimedOut /\ pollErrors = 0 /\ polls >= 2

(* C9: an intent first reported successful on the k-th poll is returned    *)
(* FILLED on that poll, within k x pollIntervalMs of the start.            *)
C9_FilledWithinKIntervals ==
    (Found # 0 /\ lastFeed[Found].success) =>
        /\ tpc = "done"
        /\ tresult = Filled(lastFeed[Found].hash)
        /\ Elapsed <= polls * pollIntervalMs

(* C9 (amended): an intent first reported successful on the k-th poll is   *)
(* returned FILLED on that poll, before any further request or sleep, at   *)
(* elapsed time (k - 1) x pollIntervalMs plus the time of the relayer      *)
(* requests made so far.                                                   *)
C9_FilledOnKthPoll ==
    (Found # 0 /\ lastFeed[Found].success) =>
        /\ tpc = "done"
        /\ tresult = Filled(lastFeed[Found].hash)
        /\ iterGets = 1
        /\ sleeps = polls - 1
        /\ Elapsed = (polls - 1) * pollIntervalMs + netTime

C9_FilledOnThirdPoll == Found # 0 /\ lastFeed[Found].success /\ tpc = "done" /\ polls = 3

(* C10: a poll that ends in an error does not end the call: one sleep      *)
(* follows, then the loop test, which starts the next poll or returns the  *)
(* timeout at or after the deadline; the call returns nothing but FILLED,  *)
(* FAILED or that timeout.                                                 *)
C10_PollErrorNotFatal ==
    [][/\ pollErrors' > pollErrors =>
             (tpc' = "sleep" /\ sleeps' = sleeps + 1 /\ ~tresult'.returned)
       /\ (tpc = "sleep" /\ pollErrors > 0) =>
             \/ tpc' = "activity" /\ polls' = polls + 1 /\ ~tresult'.returned
             \/ tpc' = "done" /\ tresult' = TimedOut /\ now' - startTime >= timeoutMs
       /\ tresult'.returned =>
             \/ tresult'.filled
             \/ tresult' = Failed
             \/ tresult' = TimedOut /\ now' - startTime' >= timeoutMs]_vars

C10_FilledAfterPollError == pollErrors > 0 /\ tresult.filled

(***************************************************************************)
(* The canonical encoding: serializeIntent                                 *)
(***************************************************************************)
Called == epc \in {"encoded", "varied"}

\* the characters of a maker string after its "0x"
Digits(maker) ==
    IF Len(maker) >= 2 /\ maker[1] = "0" /\ maker[2] = "x"
    THEN SubSeq(maker, 3, Len(maker))
    ELSE maker

ValidHex(maker) == \A i \in 1..Len(Digits(maker)) : HexVal(Digits(maker)[i]) # NaN

ByteLength(maker) == (Len(Digits(maker)) + 1) \div 2

DomainLength == Len(DomainSeparator)

\* the 32 bytes that follow the domain separator in an encoding
EmittedMaker(out) == SubSeq(out.bytes, DomainLength + 1, DomainLength + AddressLength)

PaddedOrRejected(a, out) ==
    /\ ByteLength(a.maker) = 20 =>
          /\ out.ok
          /\ EmittedMaker(out) = Chars(0, 12) \o hexToBytes(a.maker)
    /\ ByteLength(a.maker) = AddressLength =>
          /\ out.ok
          /\ EmittedMaker(out) = hexToBytes(a.maker)
    /\ ByteLength(a.maker) \notin {20, AddressLength} => ~out.ok

\* C13: for a maker of hexadecimal digits, serializeIntent emits the maker as
\* exactly 32 bytes: a 20-byte address right-aligned behind 12 zero bytes, a
\* 32-byte address unchanged, and an address of any other byte length is
\* rejected.
C13_MakerPaddedOrRejected ==
    /\ (Called /\ ValidHex(encIn.maker)) => PaddedOrRejected(encIn, encOut)
    /\ (epc = "varied" /\ ValidHex(encAlt.maker)) => PaddedOrRejected(encAlt, encAltOut)

\* what serializeIntent emits for one field
EmittedField(a, f) ==
    CASE f = "maker" -> ToUint8Array(MakerField(hexToBytes(a.maker)))
      [] f = "nonce" -> serializeU64(a.nonce.int)
      [] f \in {"sellToken", "buyToken"} -> serializeBytes(a[f])
      [] OTHER -> serializeU64(Floor(a[f]).int)

\* an integer of the unsigned 64-bit range
InRange(x) == ~x.nan /\ ~x.frac /\ Len(x.int) <= U64Length

BothEncoded == epc = "varied" /\ encOut.ok /\ encAltOut.ok

Overflows(a) ==
    \/ Len(a.nonce.int) > U64Length
    \/ \E f \in {"sellAmount", "startBuyAmount", "endBuyAmount", "startTime", "endTime"} :
          Len(a[f].int) > U64Length

FailsAsSpecified(a, out) ==
    /\ ~ValidHex(a.maker) => (~out.ok /\ out.error = "InvalidAddress")
    /\ (ValidHex(a.maker) /\ Overflows(a)) => (~out.ok /\ out.error = "IntegerOverflow")

\* C15: serializeIntent fails with InvalidAddress when the maker is not valid
\* hexadecimal and with IntegerOverflow when the nonce, an amount or a time
\* exceeds the unsigned 64-bit range; no such input is encoded.
C15_InvalidInputsFail ==
    /\ Called => FailsAsSpecified(encIn, encOut)
    /\ epc = "varied" => FailsAsSpecified(encAlt, encAltOut)

(***************************************************************************)
(* The order list: getOrders                                               *)
(***************************************************************************)
\* the entries of a relayer list whose maker is the queried one
Mine(list) == {i \in 1..Len(list) : Lower(list[i].maker) = Lower(MakerAddress)}

ListedAs(id, status) ==
    {k \in 1..Len(gresult.orders) :
        gresult.orders[k].id = id /\ gresult.orders[k].status = status}

SettledStatus(activity) == IF activity.success THEN "FILLED" ELSE "CANCELLED"

\* order k of the result is the Order of a relayer entry of the queried maker
FromEntry(k) ==
    \/ \E i \in Mine(relayerOrders) :
          /\ gresult.orders[k].id = relayerOrders[i].id
          /\ gresult.orders[k].status = "PENDING"
    \/ \E i \in Mine(relayerActivity) :
          /\ gresult.orders[k].id = relayerActivity[i].hash
          /\ gresult.orders[k].status = SettledStatus(relayerActivity[i])

Answered == gresult.returned /\ ~requestFailed

Matching == Cardinality(Mine(relayerOrders)) + Cardinality(Mine(relayerActivity))

MatchingStamps ==
    [i \in Mine(relayerOrders) |->
        IF relayerOrders[i].timestamp = 0 THEN now ELSE relayerOrders[i].timestamp]

\* the number of matching entries whose Order is newer than t
Newer(t) ==
    Cardinality({i \in Mine(relayerOrders) : MatchingStamps[i] > t})
    + Cardinality({i \in Mine(relayerActivity) : relayerActivity[i].timestamp > t})

C16_KeysNormalized ==
    \A i \in 1..Len(keysSent) :
        /\ Len(keysSent[i].key) \in {32, 33}
        /\ Len(keysSent[i].key) = 33 => keysSent[i].as = SubSeq(keysSent[i].key, 2, 33)
        /\ Len(keysSent[i].key) = 32 => keysSent[i].as = keysSent[i].key

Submitted == calls["post"] > 0

\* C20: every intent executeSwap submits has end_time > start_time and
\* end_buy_amount <= start_buy_amount.
C20_IntentWellFormed ==
    Submitted =>
        /\ intent.end_time > intent.start_time
        /\ intent.end_buy_amount <= intent.start_buy_amount

C20_IntentSubmitted ==
    /\ Submitted
    /\ result.success
    /\ intent.start_time = 2000
    /\ intent.end_time = 2300
    /\ intent.start_buy_amount = 100000000
    /\ intent.end_buy_amount = 95000000

(***************************************************************************)
(* /confirm: relayer rejection and settlement notifications                *)
(***************************************************************************)
\* C11: when POST /intents is answered with an error payload {error},
\* executeSwap returns success = false with a message that carries the
\* relayer's error string unchanged, and /confirm then starts no settlement
\* polling and sends no settlement notification.
C11_RejectionEndsConfirm ==
    /\ relayerError # NoError =>
          /\ pc = "done"
          /\ result.returned
          /\ ~result.success
          /\ result.message = <<"Relayer rejected: ", relayerError>>
    /\ rejection # NoError =>
          /\ ~swapResult.success
          /\ swapResult.message = <<"Relayer rejected: ", rejection>>
          /\ cpc \in {"reply_failed", "done"}
          /\ tracked = <<>>
          /\ tpc = "idle"
          /\ notifications = <<>>

C11_RejectedAndReplied ==
    /\ rejection = "rpc error"
    /\ swapResult.returned
    /\ cpc = "done"

\* C19: for an intent submitted through /confirm the background task hands
\* at most one settlement notification to sendMessage: one when the tracker
\* returns FILLED, one when it returns FAILED, none when it returns the
\* timeout outcome (and none before it has returned).
C19_OneNotificationAtMost ==
    /\ Len(notifications) <= 1
    /\ ~pollResult.returned => notifications = <<>>
    /\ pollResult.returned =>
          /\ swapResult.success
          /\ pollResult.filled => notifications = <<"filled">>
          /\ pollResult = Failed => notifications = <<"failed">>
          /\ pollResult = TimedOut => notifications = <<>>

C19_SilentTimeout ==
    /\ cpc = "done"
    /\ tracked # <<>>
    /\ pollResult = TimedOut
    /\ notifications = <<>>

\* C12: a failing collaborator never makes executeSwap, withdrawFromEscrow,
\* cancelOrders, getOrders or waitForOrderCompletion raise: no call ends with
\* an exception leaving the function, every call that has ended has returned
\* a value, and a call whose collaborator failure reached a catch block that
\* ends it has returned the failure value (getOrders: the empty list).
Ended(position) == position \in {"done", "raised"}

C21_SellAmountPositive ==
    (Submitted /\ sellAmount.m # <<>>) => intent.sell_amount > 0

\* C22: the nonce of every intent executeSwap submits is the value the
\* get_nonce view returned during that call.
C22_NonceFromView ==
    Submitted => (nonceVal.ok /\ nonceVal.value = intent.nonce)

\* C26: inside /confirm, when executeSwap has returned success one background
\* waitForOrderCompletion is started, for the intent hash and the maker's
\* address; when it has returned failure none is started.
C26_TrackedIffSubmitted ==
    (swapResult.returned /\ cpc \in {"polling", "sendMessage", "done"}) =>
        IF swapResult.success
        THEN tracked = <<IntentHash, MakerAddress, ConfirmTimeoutMs, ConfirmPollIntervalMs>>
        ELSE tracked = <<>>

\* C25: handleConfirm has returned whenever its background task is awaiting
\* waitForOrderCompletion or sendMessage, so the bot handles other commands
\* while the poll is pending.
C25_PollDoesNotBlock ==
    /\ cpc \in {"polling", "sendMessage"} => handler = "returned"
    /\ handler = "running" => others = 0

C25_CommandHandledWhilePolling ==
    /\ cpc = "polling"
    /\ ~pollResult.returned
    /\ others > 0

\* C27: when sendMessage throws, the background task ends: the notification
\* is not handed to sendMessage again, nothing is raised, and the tracker's
\* outcome and the reply /confirm gave stay as they were.
C27_DeliveryFailureSwallowed ==
    [][(cpc = "sendMessage" /\ delivery' = "failed") =>
          /\ cpc' = "done"
          /\ UNCHANGED <<notifications, pollResult, swapResult, tracked>>]_vars

C27_DeliveryFailed ==
    /\ delivery = "failed"
    /\ cpc = "done"
    /\ pollResult.returned
    /\ Len(notifications) = 1

\* C28: at most MAX_CLAIMS_PER_PERIOD claims of an ID succeed within the
\* 24 hours that start at its first recorded claim.
C28_ThreeClaimsPerWindow ==
    claimHistory # NoClaims =>
        Cardinality({i \in 1..Len(grants) :
                        /\ grants[i] >= claimHistory.firstClaimTime
                        /\ grants[i] < claimHistory.firstClaimTime + COOLDOWN_MS})
            <= MAX_CLAIMS_PER_PERIOD

(***************************************************************************)
(* Concurrent executeSwap calls of one maker                               *)
(***************************************************************************)
\* C23: concurrent executeSwap calls of a maker are not serialized: a call
\* that has not returned is never held back, whatever the other call is
\* doing; every intent POSTed carries the nonce its call read, and a call
\* that has returned has returned success or failure.
C23_NotSerialized ==
    /\ \A c \in Calls : rpc[c] # "done" => MayProceed(c)
    /\ \A c \in Calls : rpc[c] = "done" <=> rres[c] \in {"success", "failure"}
    /\ \A i \in 1..Len(posted) : posted[i].nonce = rnonce[posted[i].call]

C23_SameNonceTwice ==
    /\ \A c \in Calls : rpc[c] = "done"
    /\ Len(posted) = 2
    /\ posted[1].call # posted[2].call
    /\ posted[1].nonce = posted[2].nonce
    /\ posted[1].nonce = 7
    /\ rres[1] = "success"
    /\ rres[2] = "failure"

\* C24: the escrow check and the deposit are not atomic: the deposit a call
\* makes is the shortfall of the balance that call read, whatever the other
\* call has deposited since.
C24_DepositFromBalanceRead ==
    /\ \A c \in Calls :
          rdep[c] >= 0 => (rbal[c] < rneed[c] /\ rdep[c] = Shortfalls[rneed[c]][rbal[c]])

C24_BothDepositOnStaleBalance ==
    /\ rbal[1] = 1
    /\ rbal[2] = 1
    /\ rdep[1] > 0
    /\ rdep[2] > 0
    /\ chainEscrow = 1 + rdep[1] + rdep[2]
    /\ chainEscrow > rneed[1]
    /\ chainEscrow > rneed[2]

\* C29: FILLED or FAILED is returned only when the feed just scanned holds an
\* entry with this intent's hash and the corresponding success flag, and the
\* reference returned with FILLED is that hash.
C29_OwnEntryResolves ==
    (tpc = "done" /\ tresult # TimedOut) =>
        /\ \E i \in 1..Len(lastFeed) :
              /\ lastFeed[i].hash = IntentHash
              /\ lastFeed[i].success = tresult.filled
        /\ tresult.filled => tresult.txHash = IntentHash

\* C30: when every relayer request is answered or fails and every sleep
\* ends, waitForOrderCompletion returns; what it returns is FILLED with a
\* reference, FAILED or the timeout outcome, and nothing changes afterwards.
C30_TerminatesInOneOutcome ==
    /\ <>(tpc = "done")
    /\ [](tpc = "done" =>
            \/ \E h \in Hashes : tresult = Filled(h)
            \/ tresult = Failed
            \/ tresult = TimedOut)
    /\ [][tpc = "done" => (tpc' = "done" /\ tresult' = tresult)]_vars

C30_TimedOutAfterErrorsOnly ==
    /\ tpc = "done"
    /\ tresult = TimedOut
    /\ polls >= 2
    /\ pollErrors = polls

(***************************************************************************)
(* C31: a poll that finds the intent in neither feed returns nothing: the  *)
(* answer to GET /orders, whatever it holds, only starts a sleep of one    *)
(* poll interval, after which the loop test polls again or ends the call   *)
(* at the deadline; the call returns only on a matching activity entry or  *)
(* on the deadline.                                                        *)
(***************************************************************************)
C31_AbsentFromBothWaits ==
    /\ [][tpc = "orders" =>
            /\ tpc' = "sleep"
            /\ sleeps' = sleeps + 1
            /\ tresult' = NoOutcome]_vars
    /\ [][stillPending = "no" =>
            /\ now' = now + pollIntervalMs
            /\ \/ tpc' = "activity" /\ polls' = polls + 1 /\ tresult' = NoOutcome
               \/ /\ tpc' = "done"
                  /\ tresult' = TimedOut
                  /\ now' - startTime >= timeoutMs]_vars
    /\ [][(tpc # "done" /\ tpc' = "done") =>
            \/ /\ tpc \in {"start", "sleep"}
               /\ tresult' = TimedOut
               /\ now' - startTime >= timeoutMs
            \/ /\ tpc = "activity"
               /\ FirstMatch(lastFeed', IntentHash, MakerAddress, now', timeoutMs) # 0
               /\ tresult' \in {Failed} \cup {Filled(h) : h \in Hashes}]_vars

C31_SleepsAfterAbsent ==
    /\ tpc = "sleep"
    /\ stillPending = "no"
    /\ sleeps >= 2
    /\ tresult = NoOutcome

C33_QuoteExecutedOnce ==
    \A q \in 1..MaxQuotes :
        Cardinality({k \in 1..Len(executions) : executions[k].quote = q}) <= 1

\* C34: when a /confirm completes, an entry leaves pendingQuotes only if it
\* is the quote that /confirm executed; a quote stored meanwhile and the
\* quotes of other users stay.
C34_OnlyExecutedQuoteRemoved ==
    [][\A u \in Users :
          (pendingQuotes[u] # NoQuote /\ pendingQuotes'[u] = NoQuote) =>
              \E i \in 1..Len(confirms) :
                  /\ confirms[i].pc = "executeSwap"
                  /\ confirms'[i].pc = "done"
                  /\ confirms[i].user = u
                  /\ confirms[i].quote = pendingQuotes[u]]_vars

(***************************************************************************)
(* ActivityMonitor                                                         *)
(***************************************************************************)
\* C35: no swap hash is broadcast to the same chat more than once, however
\* the checkActivity runs started by the timer interleave.
C35_BroadcastOnce ==
    \A m \in Chats \X MonitorSwaps : delivered[m] <= 1

\* C36: at most one polling timer is active; one is active when the latest
\* of subscribe, start and stop was subscribe or start, and none when it was
\* stop.
C36_OneTimer ==
    /\ Cardinality(timers) <= 1
    /\ lastCall \in {"subscribe", "start"} => timers = {interval}
    /\ lastCall = "stop" => (timers = {} /\ interval = NoTimer)

C36_RestartedAfterStop ==
    /\ lastCall = "subscribe"
    /\ started = 2
    /\ timers = {2}
    /\ monitorCalls = 3

(***************************************************************************)
(* C37: getOrCreateUser creates a new Privy user only when the lookup by   *)
(* Telegram ID itself reported not-found; a failure after an existing user *)
(* was found never leads to users().create for the same Telegram ID.       *)
(***************************************************************************)
C37_CreatedOnlyWhenLookupNotFound ==
    \A k \in 1..Len(creations) : creations[k].lookup = "not found"

(***************************************************************************)
(* C38: until resetWallet is called, the getOrCreateUser calls made        *)
(* without forceNewWallet for one Telegram ID all return the same wallet.  *)
(***************************************************************************)
C38_SameWalletUntilReset ==
    (\A i \in 1..Len(pcalls) : pcalls[i].by # "resetWallet") =>
        \A i, j \in 1..Len(pcalls) :
            (/\ pcalls[i].pc = "returned"
             /\ pcalls[j].pc = "returned"
             /\ pcalls[i].tid = pcalls[j].tid) => pcalls[i].wallet = pcalls[j].wallet

(***************************************************************************)
(* C39: executeSwap, its auto-deposit included, calls getOrCreateUser only *)
(* for the Telegram ID that requested the swap, and no Privy user exists   *)
(* for any other identifier.                                               *)
(***************************************************************************)
C39_OnlyRequesterLookedUp ==
    /\ \A i \in 1..Len(pcalls) :
          pcalls[i].by \in {"executeSwap", "depositToEscrow"} => pcalls[i].tid = Requester
    /\ \A u \in 1..Len(privyUsers) : privyUsers[u].tid = Requester

(***************************************************************************)
(* C40: once /cancel has made its check, it proceeds to cancel_orders if   *)
(* and only if the maker has at least one order in the relayer's           *)
(* pending-orders feed.                                                    *)
(***************************************************************************)
C40_CancelsIffPending ==
    LET hasPending == \E i \in 1..Len(relayerOrders) :
                          Lower(relayerOrders[i].maker) = Lower(MakerAddress)
    IN  kpc \in {"filled", "nothing", "cancelOrders", "replied"} =>
            (kpc \in {"cancelOrders", "replied"} <=> hasPending)

====
